---- MODULE Spec2Model ----
(***************************************************************************)
(* Antora support of asciidoctor-vscode: the cached discovery helpers of   *)
(* src/util/findFiles.ts and the content-aggregate cache of                *)
(* src/features/antora/antoraDocument.ts, run by the single-threaded       *)
(* cooperative scheduler of the extension host.  An action is one          *)
(* synchronous segment of the code: from a call or a resumed await up to   *)
(* the next await that really suspends (a glob, a stat/read of a file).    *)
(***************************************************************************)
EXTENDS Integers, Sequences, FiniteSets, TLC

----------------------------------------------------------------------------
(* Bounds of the model. *)

\* filesystem changes (create / change / delete of a file) in one run
MaxFsOps == 2
\* calls, filesystem changes and resets in one run, taken together
MaxStimuli == 3
\* explicit resets (dispose functions) in one run
MaxDispose == 1
\* calls that may be in flight at the same time
NumProcs == 2
\* reads and assignments of file contents made on the catalogs in use
MaxAccesses == 2
\* calls of the earlier variant in one run
MaxMemoCalls == 3

----------------------------------------------------------------------------
(* Paths.  A path is a sequence of symbols: the separator "/" and name     *)
(* fragments; a path segment is the run of fragments between separators.   *)

Sl == "/"

StartsWith(s, pre) ==
    /\ Len(pre) <= Len(s)
    /\ SubSeq(s, 1, Len(pre)) = pre

\* String.prototype.slice(n): drop the first n symbols
Slice(s, n) == SubSeq(s, n + 1, Len(s))

\* String.prototype.lastIndexOf('/'), 1-based; 0 when there is none
LastIndexOfSl(s) ==
    IF \E i \in 1..Len(s) : s[i] = Sl
    THEN CHOOSE i \in 1..Len(s) :
            /\ s[i] = Sl
            /\ \A j \in (i + 1)..Len(s) : s[j] # Sl
    ELSE 0

\* path.slice(0, path.lastIndexOf('/'))
ParentDir(path) == SubSeq(path, 1, LastIndexOfSl(path) - 1)

RECURSIVE SplitFrom(_, _, _)
SplitFrom(s, cur, acc) ==
    IF s = <<>> THEN Append(acc, cur)
    ELSE IF Head(s) = Sl THEN SplitFrom(Tail(s), <<>>, Append(acc, cur))
    ELSE SplitFrom(Tail(s), Append(cur, Head(s)), acc)

\* String.prototype.split('/'): the segments, empty ones included
Split(s) == SplitFrom(s, <<>>, <<>>)

NonEmptySegs(s) == SelectSeq(Split(s), LAMBDA g : g # <<>>)

RECURSIVE JoinSegs(_)
JoinSegs(segs) ==
    IF segs = <<>> THEN <<>>
    ELSE IF Len(segs) = 1 THEN Head(segs)
    ELSE Head(segs) \o <<Sl>> \o JoinSegs(Tail(segs))

RECURSIVE ResolveDots(_, _, _)
ResolveDots(segs, acc, abs) ==
    IF segs = <<>> THEN acc
    ELSE IF Head(segs) = <<".">> THEN ResolveDots(Tail(segs), acc, abs)
    ELSE IF Head(segs) = <<"..">>
    THEN IF acc # <<>> /\ acc[Len(acc)] # <<"..">>
         THEN ResolveDots(Tail(segs), SubSeq(acc, 1, Len(acc) - 1), abs)
         ELSE IF abs THEN ResolveDots(Tail(segs), acc, abs)
         ELSE ResolveDots(Tail(segs), Append(acc, Head(segs)), abs)
    ELSE ResolveDots(Tail(segs), Append(acc, Head(segs)), abs)

\* posix.normalize: "." and ".." resolved, repeated separators collapsed,
\* a trailing separator kept
Normalize(path) ==
    IF path = <<>> THEN <<".">>
    ELSE LET abs      == path[1] = Sl
             trailing == path[Len(path)] = Sl
             body     == JoinSegs(ResolveDots(NonEmptySegs(path), <<>>, abs))
             withDot  == IF body = <<>> /\ ~abs THEN <<".">> ELSE body
             withSl   == IF withDot # <<>> /\ trailing
                         THEN withDot \o <<Sl>> ELSE withDot
         IN  IF abs THEN <<Sl>> \o withSl ELSE withSl

\* posix.relative(from, to) for a `to` at or below `from`
Relative(from, to) ==
    IF to = from THEN <<>>
    ELSE Slice(to, Len(from) + 1)

----------------------------------------------------------------------------
(* Globs.  A pattern is a path whose segments may be "**" (any number of   *)
(* segments), "*" (one segment) or the family alternation.                 *)

Families ==
    {"attachments", "examples", "images", "pages", "partials", "assets"}

FamilyAlt == "{attachments,examples,images,pages,partials,assets}"

RECURSIVE MatchSegs(_, _)
MatchSegs(pat, segs) ==
    IF pat = <<>> THEN segs = <<>>
    ELSE IF Head(pat) = <<"**">>
    THEN \/ MatchSegs(Tail(pat), segs)
         \/ segs # <<>> /\ MatchSegs(pat, Tail(segs))
    ELSE IF segs = <<>> THEN FALSE
    ELSE IF Head(pat) = <<"*">> THEN MatchSegs(Tail(pat), Tail(segs))
    ELSE IF Head(pat) = <<FamilyAlt>>
    THEN /\ \E f \in Families : Head(segs) = <<f>>
         /\ MatchSegs(Tail(pat), Tail(segs))
    ELSE Head(pat) = Head(segs) /\ MatchSegs(Tail(pat), Tail(segs))

\* a glob matched against a whole path (file-system watchers)
GlobMatches(glob, path) == MatchSegs(NonEmptySegs(glob), NonEmptySegs(path))

\* 'modules/*/{attachments,examples,images,pages,partials,assets}/**'
ANTORA_CONTENT_GLOB ==
    <<"modules", Sl, "*", Sl, FamilyAlt, Sl, "**">>

\* '**/modules/*/{attachments,examples,images,pages,partials,assets}/**'
ANTORA_CONTENT_WATCHER_GLOB == <<"**", Sl>> \o ANTORA_CONTENT_GLOB

\* '**/antora.yml'
AntoraYmlGlob == <<"**", Sl, "antora.yml">>

----------------------------------------------------------------------------
(* The workspace: one workspace folder, two component roots (one of them   *)
(* below node_modules) and their content files, and a third root nested in *)
(* the pages of the first.                                                 *)

WorkspaceFolder == <<Sl, "w">>

RootA == WorkspaceFolder \o <<Sl, "a">>
RootN == WorkspaceFolder \o <<Sl, "node_modules", Sl, "p">>
RootS == RootA \o <<Sl, "modules", Sl, "m", Sl, "pages", Sl, "s">>

ConfigUri(root) == root \o <<Sl, "antora.yml">>
PageX(root) == root \o <<Sl, "modules", Sl, "m", Sl, "pages", Sl, "x">>
PartY(root) == root \o <<Sl, "modules", Sl, "m", Sl, "partials", Sl, "y">>

\* every file the runs may hold, in the order the glob service lists them
AllPaths ==
    << ConfigUri(RootA), ConfigUri(RootN),
       PageX(RootA), PartY(RootA), PageX(RootN),
       ConfigUri(RootS), PageX(RootS) >>

PathSet == {AllPaths[i] : i \in 1..Len(AllPaths)}

\* the files of the two separate components
TwoRoots == PathSet \ {ConfigUri(RootS), PageX(RootS)}

\* the disks a run may start from
InitialDisks ==
    { {ConfigUri(RootA), PageX(RootA)},
      {ConfigUri(RootA), ConfigUri(RootN), PageX(RootA), PageX(RootN)} }

\* the documents and prefixes the calls are made with
Documents == {PageX(RootA)}
\* the document findAntoraConfigFile is asked about in the runs
ResolvedDocuments == {PageX(RootN)}
Prefixes == {<<"a">>, <<"node_modules", Sl, "p">>}

Procs == 1..NumProcs

----------------------------------------------------------------------------
(* Values. *)

\* an array object: its identity and its elements; id 0 is `undefined`
Arr(id, items) == [id |-> id, items |-> items]
NoArr == Arr(0, <<>>)

\* a Map object: its identity and its keys (uri.path; the value is
\* uri.fsPath, which on a POSIX host is the same string)
MapObj(id, keys) == [id |-> id, keys |-> keys]
NoMap == MapObj(0, {})

\* a content catalog: its identity and the files classified into it
Catalog(id, files) == [id |-> id, files |-> files]
NoCatalog == Catalog(0, {})

\* ContentAggregateCache; id 0 is `undefined`
NoAggregate ==
    [id |-> 0, descriptors |-> <<>>, filesByComponent |-> <<>>,
     rootPaths |-> <<>>, fsPathByAbsPath |-> NoMap]

SeqToSet(s) == {s[i] : i \in 1..Len(s)}

----------------------------------------------------------------------------
VARIABLES
    disk,                      \* the files on disk, and the directories
                               \* that are symbolic links
    bytes,                     \* what each file holds (a version number)
    events,                    \* watcher events not yet delivered, oldest first
    fsOps,                     \* filesystem changes made so far
    antoraConfigFilesCache,    \* findFiles.ts: Uri[] | undefined
    antoraContentFilesCache,   \* findFiles.ts: Map<glob, Uri[]>
    configWatcherCreated,      \* findFiles.ts: _configWatcherCreated
    contentWatcherCreated,     \* findFiles.ts: _contentWatcherCreated
    tasks,                     \* suspended antora.yml onDidCreate handlers
    aggregateCache,            \* antoraDocument.ts: _aggregateCache
    aggregateWatchersCreated,  \* antoraDocument.ts: _aggregateWatchersCreated
    cachedAntoraContext,       \* the earlier antoraDocument.ts: the context kept
    watchersInitialized,       \* the earlier antoraDocument.ts
    antoraConfigFileCache,     \* the same: Map<document, antora.yml | undefined>
    antoraConfigCache,         \* the same: Map<antora.yml, AntoraConfig>
    memoHist,                  \* history of the earlier variant's handlers
    proc,                      \* the calls in flight and their locals
    nextId,                    \* the next fresh object identity
    calls,                     \* calls started so far
    disposes,                  \* resets made so far
    hist                       \* what the last steps did (history)

vars ==
    << disk, bytes, events, fsOps, antoraConfigFilesCache, antoraContentFilesCache,
       configWatcherCreated, contentWatcherCreated, tasks, aggregateCache,
       aggregateWatchersCreated, cachedAntoraContext, watchersInitialized,
       antoraConfigFileCache, antoraConfigCache, memoHist, proc, nextId,
       calls, disposes, hist >>

fsVars == << disk, bytes, events, fsOps >>
findFilesVars ==
    << antoraConfigFilesCache, antoraContentFilesCache,
       configWatcherCreated, contentWatcherCreated, tasks >>
aggregateVars == << aggregateCache, aggregateWatchersCreated >>
memoVars ==
    << cachedAntoraContext, watchersInitialized, antoraConfigFileCache,
       antoraConfigCache, memoHist >>

----------------------------------------------------------------------------
(* The glob service and the pure helpers of findFiles.ts. *)

\* vscode.workspace.findFiles(glob) over the disk d: the files of the
\* workspace folder whose folder-relative path matches the glob
GlobListing(glob, d) ==
    SelectSeq(AllPaths, LAMBDA q :
        /\ q \in d
        /\ StartsWith(q, WorkspaceFolder \o <<Sl>>)
        /\ MatchSegs(NonEmptySegs(glob),
                     NonEmptySegs(Relative(WorkspaceFolder, q))))

\* the cache key of findAntoraContentFiles(workspaceRelativePrefix)
ContentGlobOfPrefix(rel) ==
    IF rel # <<>> THEN rel \o <<Sl>> \o ANTORA_CONTENT_GLOB
    ELSE ANTORA_CONTENT_GLOB

contentGlobForConfigUri(configUri) ==
    ContentGlobOfPrefix(Relative(WorkspaceFolder, ParentDir(configUri)))

\* the globs the code issues over this workspace and what each lists when
\* every file is there (the matching is done once)
IssuedGlobs ==
    {AntoraYmlGlob}
        \cup {ContentGlobOfPrefix(x) : x \in Prefixes}
        \cup {contentGlobForConfigUri(q) :
                 q \in {r \in PathSet : GlobMatches(AntoraYmlGlob, r)}}

FullListing == [g \in IssuedGlobs |-> GlobListing(g, PathSet)]

FindFiles(glob, d) == SelectSeq(FullListing[glob], LAMBDA q : q \in d)

\* the files the two watcher patterns match
YmlPaths == {q \in PathSet : GlobMatches(AntoraYmlGlob, q)}
ContentPaths == {q \in PathSet : GlobMatches(ANTORA_CONTENT_WATCHER_GLOB, q)}

\* Map.prototype.delete
MapDelete(m, key) == [k \in (DOMAIN m) \ {key} |-> m[k]]

\* a set that drops the other entries
MapSetAlone(m, key, val) == (key :> val)

\* Map.prototype.set
MapSet(m, key, val) == (key :> val) @@ m

EmptyMap == [k \in {} |-> NoArr]

\* a handler that leaves the list as it was
ConfigCreateKeeps(cache, uri, id) == cache

\* antora.yml watcher, onDidCreate: the new URI is appended to a copy
ConfigOnDidCreate(cache, uri, id) ==
    IF cache # NoArr THEN Arr(id, Append(cache.items, uri)) ELSE cache

\* antora.yml watcher, onDidDelete: the URI is filtered out of a copy
ConfigOnDidDelete(cache, uri, id) ==
    IF cache # NoArr
    THEN Arr(id, SelectSeq(cache.items, LAMBDA c : c # uri))
    ELSE cache

\* a handler that leaves the map as it was
ContentKeeps(content, kind) == content

\* content watcher of findFiles.ts: create, delete and change all clear
ContentInvalidate(content, kind) == EmptyMap

----------------------------------------------------------------------------
(* The pure helpers of antoraDocument.ts. *)

\* buildAggregateFile: the record classifyContent expects (the name parts
\* extname and stem are functions of abspath and left out)
buildAggregateFile(fileUri, contentSourceRootPath) ==
    [ base     |-> contentSourceRootPath,
      path     |-> Relative(contentSourceRootPath, fileUri),
      contents |-> "null",
      abspath  |-> fileUri ]

\* rootPaths.findIndex((r) => absPath.startsWith(r + '/')), 1-based, 0 = -1
FindRootIndex(rootPaths, absPath) ==
    IF \E i \in 1..Len(rootPaths) : StartsWith(absPath, rootPaths[i] \o <<Sl>>)
    THEN CHOOSE i \in 1..Len(rootPaths) :
            /\ StartsWith(absPath, rootPaths[i] \o <<Sl>>)
            /\ \A j \in 1..(i - 1) : ~StartsWith(absPath, rootPaths[j] \o <<Sl>>)
    ELSE 0

\* contentWatcher.onDidCreate: the record is pushed onto the component's
\* array in place and its path recorded
\* an onDidCreate that builds the record for the first component
CreateUsesFirstRoot(agg, uri) ==
    LET idx == FindRootIndex(agg.rootPaths, uri)
    IN  IF agg = NoAggregate \/ idx = 0 THEN agg
        ELSE [agg EXCEPT
                !.filesByComponent[idx].items =
                    Append(@, buildAggregateFile(uri, agg.rootPaths[1])),
                !.fsPathByAbsPath.keys = @ \cup {uri}]

AggOnDidCreate(agg, uri) ==
    LET idx == FindRootIndex(agg.rootPaths, uri)
    IN  IF agg = NoAggregate \/ idx = 0 THEN agg
        ELSE [agg EXCEPT
                !.filesByComponent[idx].items =
                    Append(@, buildAggregateFile(uri, agg.rootPaths[idx])),
                !.fsPathByAbsPath.keys = @ \cup {uri}]

\* files.find((f) => f.src.abspath === absPath), 1-based, 0 = undefined
FindFileIndex(items, absPath) ==
    IF \E i \in 1..Len(items) : items[i].abspath = absPath
    THEN CHOOSE i \in 1..Len(items) :
            /\ items[i].abspath = absPath
            /\ \A j \in 1..(i - 1) : items[j].abspath # absPath
    ELSE 0

\* the first component whose list holds the path, 0 when none does
FirstListWith(lists, absPath) ==
    IF \E i \in 1..Len(lists) : FindFileIndex(lists[i].items, absPath) # 0
    THEN CHOOSE i \in 1..Len(lists) :
            /\ FindFileIndex(lists[i].items, absPath) # 0
            /\ \A j \in 1..(i - 1) : FindFileIndex(lists[j].items, absPath) = 0
    ELSE 0

\* a handler that drops the aggregate
AggChangeDrops(agg, uri) ==
    [id |-> 0, descriptors |-> <<>>, filesByComponent |-> <<>>,
     rootPaths |-> <<>>, fsPathByAbsPath |-> MapObj(0, {})]

\* contentWatcher.onDidChange: the first record with that path has its
\* contents reset to null (the code never stores anything but null in a
\* record of the aggregate: the classifier copies the records it is given)
AggOnDidChange(agg, uri) ==
    LET c == FirstListWith(agg.filesByComponent, uri)
    IN  IF agg = NoAggregate \/ c = 0 THEN agg
        ELSE [agg EXCEPT
                !.filesByComponent[c].items[
                    FindFileIndex(agg.filesByComponent[c].items, uri)].contents
                        = "null"]

\* contentWatcher.onDidDelete: the component's array is replaced by a
\* filtered copy and the path forgotten
AggOnDidDelete(agg, uri, id) ==
    LET idx == FindRootIndex(agg.rootPaths, uri)
    IN  IF agg = NoAggregate \/ idx = 0 THEN agg
        ELSE [agg EXCEPT
                !.filesByComponent[idx] =
                    Arr(id, SelectSeq(@.items, LAMBDA f : f.abspath # uri)),
                !.fsPathByAbsPath.keys = @ \ {uri}]

\* a handler that leaves the aggregate as it was
AggConfigKeeps(agg, kind) == agg

\* configWatcher of antoraDocument.ts: create, delete and change all drop
\* the aggregate
AggConfigInvalidate(agg, kind) == NoAggregate

----------------------------------------------------------------------------
(* The document resolver of antoraDocument.ts. *)

\* a pattern that does not ask for the separator after pages
PagesPatternLoose(rest) ==
    \E k \in 2..Len(rest) :
        /\ rest[1] = Sl
        /\ \A i \in 2..k : rest[i] # Sl
        /\ Len(rest) >= k + 2
        /\ rest[k + 1] = Sl
        /\ rest[k + 2] = "pages"

\* /^\/[^/]+\/pages\/.*/ tested on the rest of the path
PagesPattern(rest) ==
    \E k \in 2..Len(rest) :
        /\ rest[1] = Sl
        /\ \A i \in 2..k : rest[i] # Sl
        /\ Len(rest) >= k + 3
        /\ rest[k + 1] = Sl
        /\ rest[k + 2] = "pages"
        /\ rest[k + 3] = Sl

\* a test that takes the directory of antora.yml itself for modulesDirPath
\* when that directory is named modules
DocumentMatchesOwnDir(asciidocFilePath, antoraConfigUri) ==
    LET parent == ParentDir(antoraConfigUri)
        modulesDirPath ==
            IF parent[Len(parent)] = "modules" THEN Normalize(parent)
            ELSE Normalize(parent \o <<Sl, "modules">>)
    IN  /\ StartsWith(asciidocFilePath, modulesDirPath)
        /\ PagesPattern(Slice(asciidocFilePath, Len(modulesDirPath)))

\* a test that takes any directory of the component for its modules
DocumentMatchesAnyDir(asciidocFilePath, antoraConfigUri) ==
    LET root == Normalize(ParentDir(antoraConfigUri))
    IN  /\ StartsWith(asciidocFilePath, root \o <<Sl>>)
        /\ Len(asciidocFilePath) >= Len(root) + 2
        /\ PagesPattern(Slice(asciidocFilePath, Len(root) + 2))

\* the test findAntoraConfigFile applies to one candidate
DocumentMatches(asciidocFilePath, antoraConfigUri) ==
    LET modulesDirPath ==
            Normalize(ParentDir(antoraConfigUri) \o <<Sl, "modules">>)
    IN  /\ StartsWith(asciidocFilePath, modulesDirPath)
        /\ PagesPattern(Slice(asciidocFilePath, Len(modulesDirPath)))

\* a loop that keeps the last candidate that matches
LastMatch(antoraConfigUris, textDocumentPath) ==
    LET hits == SelectSeq(antoraConfigUris, LAMBDA u :
                    DocumentMatches(Normalize(textDocumentPath), u))
    IN  IF hits = <<>> THEN <<>> ELSE hits[Len(hits)]

\* the loop of findAntoraConfigFile over the discovered list: the first
\* candidate that matches, <<>> (undefined) when none does
FirstMatch(antoraConfigUris, textDocumentPath) ==
    LET asciidocFilePath == Normalize(textDocumentPath)
        hits == SelectSeq(antoraConfigUris,
                          LAMBDA u : DocumentMatches(asciidocFilePath, u))
    IN  IF hits = <<>> THEN <<>> ELSE Head(hits)

----------------------------------------------------------------------------
(* The aggregate build of getAntoraDocumentContext. *)

\* the keys of an antora.yml by what the file holds: a file is written with
\* both keys, and each change rewrites it without version, without name,
\* empty or with bytes that do not parse (yaml.load gives nothing or throws;
\* config is {} either way), and with both again
ConfigKeysAt(v) ==
    IF v % 4 = 0 THEN {"name", "version"}
    ELSE IF v % 4 = 1 THEN {"name"}
    ELSE IF v % 4 = 2 THEN {"version"}
    ELSE {}

\* yaml.load(await readFile(antoraConfigUri)) || {}, and {} when the file
\* cannot be read: the keys of the config
ParsedKeys(antoraConfigUri, d) ==
    IF antoraConfigUri \in d THEN ConfigKeysAt(bytes[antoraConfigUri]) ELSE {}

\* a filter that asks for the name only
ValidRootsNameOnly(antoraConfigUris, d) ==
    LET kept  == SelectSeq(antoraConfigUris, LAMBDA u : ParentDir(u) \notin d)
        valid == SelectSeq(kept, LAMBDA u : "name" \in ParsedKeys(u, d))
    IN  [i \in 1..Len(valid) |-> ParentDir(valid[i])]

\* a getAntoraConfigs that does not look at the parent directory
ValidRootsKeepsLinks(antoraConfigUris, d) ==
    LET valid == SelectSeq(antoraConfigUris, LAMBDA u :
                     /\ "name" \in ParsedKeys(u, d)
                     /\ "version" \in ParsedKeys(u, d))
    IN  [i \in 1..Len(valid) |-> ParentDir(valid[i])]

\* getAntoraConfigs and the name/version filter: the descriptors whose
\* parent directory is no symbolic link and whose config carries both keys,
\* as their content source roots, in list order
ValidRoots(antoraConfigUris, d) ==
    LET kept  == SelectSeq(antoraConfigUris, LAMBDA u : ParentDir(u) \notin d)
        valid == SelectSeq(kept, LAMBDA u :
                     /\ "name" \in ParsedKeys(u, d)
                     /\ "version" \in ParsedKeys(u, d))
    IN  [i \in 1..Len(valid) |-> ParentDir(valid[i])]

\* the prefix handed to findAntoraContentFiles for a content source root
PrefixOfRoot(root) == Relative(WorkspaceFolder, root)

\* contentFilesUris.map(buildAggregateFile)
BuildFiles(id, uris, root) ==
    Arr(id, [i \in 1..Len(uris) |-> buildAggregateFile(uris[i], root)])

\* the set of absolute paths of the records of some file arrays
PathsOf(lists) ==
    UNION { {lists[i].items[j].abspath : j \in 1..Len(lists[i].items)} :
            i \in 1..Len(lists) }

HasDuplicates(seq) ==
    \E i, j \in 1..Len(seq) : i # j /\ seq[i] = seq[j]

\* where a directory really is: node_modules/p, when it is a symbolic link,
\* is an alias of the component directory a
Realpath(root) == IF root = RootN /\ RootN \in disk THEN RootA ELSE root

\* the descriptor parsed from the antora.yml of a root: its name and
\* version, which are those of the directory the file really is in
DescriptorOf(root) ==
    [name |-> Realpath(root)[Len(Realpath(root))], version |-> "1"]

\* classifyContent rejects a component version registered twice and a
\* file registered twice
ClassifyThrows(descriptors, lists) ==
    \/ HasDuplicates(descriptors)
    \/ \E i \in 1..Len(lists) :
          HasDuplicates([j \in 1..Len(lists[i].items) |->
                            lists[i].items[j].abspath])

\* classifyContent(…, contentAggregate): a new catalog of the files handed
\* in; the lazy accessors are installed on the files with a recorded fsPath
ClassifyContent(id, descriptors, lists) ==
    IF ClassifyThrows(descriptors, lists) THEN NoCatalog
    ELSE Catalog(id, PathsOf(lists))

\* antoraContext.getResource(textDocumentUri): the document's resource
\* context when the catalog holds the document
GetResource(catalog, textDocumentUri) ==
    catalog # NoCatalog /\ textDocumentUri \in catalog.files

\* file contents: a Buffer is the version of the file it holds, null is <<>>
Null == <<>>
Buffer(v) == <<v>>

\* fs.readFileSync(localFsPath) of a file that is there
ReadFileSync(path) == Buffer(bytes[path])

\* a read that hands back a value for a file that is not there
ReadSwallows(path, d) == FALSE

\* fs.readFileSync(localFsPath) throws when the file is not there
ReadThrows(path, d) == path \notin d

\* the closure of one lazy `contents` accessor as it is created
Unloaded == [loaded |-> FALSE, lazyContents |-> Null]

\* a getter that reads the file on every access
LazyGetRereads(acc, path) ==
    [acc |-> [loaded |-> TRUE, lazyContents |-> ReadFileSync(path)],
     read |-> TRUE]

\* get(): the closure after the access, and whether the file was read
LazyGet(acc, path) ==
    IF ~acc.loaded
    THEN [acc |-> [loaded |-> TRUE, lazyContents |-> ReadFileSync(path)],
          read |-> TRUE]
    ELSE [acc |-> acc, read |-> FALSE]

\* set(v)
LazySet(acc, v) == [loaded |-> TRUE, lazyContents |-> v]

\* accessors that read every file as they are installed
EagerAccessors(cat, fsKeys) ==
    [f \in cat.files \cap fsKeys |->
        [loaded |-> TRUE, lazyContents |-> ReadFileSync(f)]]

\* the loop over contentCatalog.findBy({}): an accessor on every classified
\* file whose fsPath was recorded
InstallAccessors(cat, fsKeys) == [f \in cat.files \cap fsKeys |-> Unloaded]

\* a context rebuilt after the await from what the shared slot then holds
ContextFromSlot(localCatalog, slot) ==
    [id |-> localCatalog.id, files |-> PathsOf(slot.filesByComponent)]

\* the context handed back after the await on getResource: the one built
\* from the call's own catalog
ContextAfterAwait(localCatalog, slot) == localCatalog

\* the aggregate committed to _aggregateCache at the end of a build
NewAggregate(id, roots, files, fsKeys) ==
    [ id               |-> id,
      descriptors      |-> [i \in 1..Len(roots) |-> DescriptorOf(roots[i])],
      filesByComponent |-> files,
      rootPaths        |-> roots,
      fsPathByAbsPath  |-> MapObj(id + 1, fsKeys) ]

\* what a build from scratch over the disk d classifies
FreshFiles(d) ==
    LET roots == ValidRoots(FindFiles(AntoraYmlGlob, d), d)
    IN  UNION { SeqToSet(FindFiles(ContentGlobOfPrefix(PrefixOfRoot(roots[i])), d)) :
                i \in 1..Len(roots) }

----------------------------------------------------------------------------
(* Calls in flight.  A call is at one of the positions                     *)
(*   idle        no call                                                   *)
(*   cfgGlob     await findFiles('**/antora.yml') in findAntoraConfigFiles *)
(*   parse       await stat / readFile in getAntoraConfigs                 *)
(*   contentGlob await findFiles(glob) in findAntoraContentFiles           *)
(*   getResource await antoraContext.getResource                           *)
(*   done        returned                                                  *)

\* what the glob service answered: not yet, a listing, or a failure
NoSnap == [done |-> FALSE, items |-> <<>>, failed |-> FALSE]

NoExpect == [kind |-> "none", path |-> <<>>, oldLen |-> 0, had |-> FALSE]

\* the last access to the contents of a catalog file
NoGot ==
    [path |-> <<>>, value |-> Null, read |-> FALSE, threw |-> FALSE,
     missing |-> FALSE, afterChange |-> FALSE, fresh |-> FALSE]

IdleProc ==
    [ op      |-> "none",    \* the function called
      pc      |-> "idle",
      arg     |-> <<>>,      \* the document path or the prefix
      pend    |-> {},        \* globs issued and not yet resumed, by index
      snaps   |-> <<>>,      \* what the glob service listed for each
      uris    |-> <<>>,      \* antoraConfigUris
      roots   |-> <<>>,      \* content source roots of the valid descriptors
      files   |-> <<>>,      \* the file arrays built so far, by component
      fsKeys  |-> {},        \* keys of the local fsPathByAbsPath
      ret     |-> NoArr,     \* the array returned
      uri     |-> <<>>,      \* the descriptor returned, <<>> = undefined
      cat     |-> NoCatalog, \* the catalog of the context
      ok      |-> FALSE,     \* a context was returned
      rejected |-> FALSE,    \* the promise of the call rejected
      caught  |-> FALSE,     \* the catch block of the call ran
      config  |-> [defined |-> FALSE, uri |-> <<>>, keys |-> {}],
                             \* the AntoraConfig returned, if one was
      lazy    |-> [f \in {} |-> Unloaded],  \* the accessors of the catalog
      \* history of the accesses to the catalog
      accesses |-> 0,        \* reads and assignments made
      reads   |-> [f \in PathSet |-> 0],    \* disk reads, by file
      first   |-> [f \in PathSet |-> Null], \* what the first read returned
      touched |-> {},        \* files read or assigned
      assigned |-> {},       \* files assigned
      changed |-> {},        \* files modified after they were loaded, once
                             \* the change event was handled; until read again
      got     |-> NoGot,     \* the last access
      \* history of the call
      hit     |-> FALSE,     \* the aggregate was found cached
      checked |-> [id |-> 0, files |-> {}],  \* the aggregate seen at the check
      prev    |-> 0,         \* what the preceding call returned, 0 = none
      globbed |-> FALSE,     \* the call issued a glob
      quiet   |-> TRUE,      \* no event was delivered since the call started
      sawRace |-> FALSE,     \* the call started after an overlapped event
      sawYml  |-> FALSE,     \* the call started after an antora.yml was
                             \* created or deleted and the event delivered
      expect  |-> NoExpect ] \* the event delivered just before the call

InFlight(q) == q.pc \notin {"idle", "done"}
Building(q) == q.op = "ctx" /\ q.pc \in {"cfgGlob", "parse", "contentGlob"}

ContentGlobs == {ContentGlobOfPrefix(x) : x \in Prefixes}

NoEv ==
    [kind |-> "none", path |-> <<>>, cfgWas |-> NoArr, contentWas |-> EmptyMap,
     aggWas |-> NoAggregate]

\* the module state of the earlier antoraDocument.ts at load: no context,
\* no watchers, two empty Maps
NoContext == [defined |-> FALSE, files |-> {}]

NoMemoEv == [kind |-> "none", path |-> <<>>, handled |-> FALSE]

InitMemoHist ==
    [ev |-> NoMemoEv,
     configWas |-> [u \in {} |-> {}],     \* antoraConfigCache before ev
     fileWas |-> [d \in {} |-> <<>>],     \* antoraConfigFileCache before ev
     changed |-> {},      \* descriptors whose change was handled, not read since
     staleHit |-> FALSE,  \* a call took one of those from the Map
     calls |-> 0]         \* calls of the earlier variant so far

InitMemo ==
    /\ cachedAntoraContext = NoContext
    /\ watchersInitialized = FALSE
    /\ antoraConfigFileCache = [d \in {} |-> <<>>]
    /\ antoraConfigCache = [u \in {} |-> {}]
    /\ memoHist = InitMemoHist

InitHist ==
    [ ev          |-> NoEv,   \* the event the last step delivered, with the
                              \* caches its handlers found
      lastCfg     |-> 0,      \* array the last findAntoraConfigFiles returned
      lastContent |-> [g \in ContentGlobs |-> 0],  \* same, per content glob
      lastCtx     |-> [doc |-> <<>>, cat |-> 0],   \* last context returned
      raced       |-> FALSE,  \* a structural event overlapped a build
      ymlSeen     |-> FALSE,  \* the create or delete event of an antora.yml
                              \* was delivered
      findResetAt |-> -1,     \* the calls made when disposeAntoraFileWatchers
                              \* ran, -1 when it did not
      aggResetAt  |-> -1,     \* same, for disposeContentAggregateCache
      made        |-> [cfg |-> 0, content |-> 0, agg |-> 0],
      dropPending |-> FALSE ]
                              \* the watchers created since the last reset:
                              \* by findFiles.ts on **/antora.yml and on the
                              \* content glob, by antoraDocument.ts (its pair)
                              \* dropPending: an antora.yml event emptied a
                              \* present aggregate and no
                              \* getAntoraDocumentContext has started since

Init ==
    /\ disk \in InitialDisks
    /\ bytes = [f \in PathSet |-> 0]
    /\ events = <<>>
    /\ fsOps = 0
    /\ antoraConfigFilesCache = NoArr
    /\ antoraContentFilesCache = EmptyMap
    /\ configWatcherCreated = FALSE
    /\ contentWatcherCreated = FALSE
    /\ tasks = <<>>
    /\ aggregateCache = NoAggregate
    /\ aggregateWatchersCreated = FALSE
    /\ proc = [p \in Procs |-> IdleProc]
    /\ nextId = 1
    /\ calls = 0
    /\ disposes = 0
    /\ hist = InitHist
    /\ InitMemo

----------------------------------------------------------------------------
(* The filesystem and its watchers. *)

\* a change on disk ends what the calls in flight were expected to return
ForgetExpect == [p \in Procs |-> [proc[p] EXCEPT !.expect = NoExpect]]

FsCreate(path) ==
    /\ fsOps < MaxFsOps
    /\ calls + fsOps + disposes < MaxStimuli
    /\ path \notin disk
    /\ disk' = disk \cup {path}
    /\ events' = Append(events, [kind |-> "create", path |-> path])
    /\ fsOps' = fsOps + 1
    /\ proc' = ForgetExpect
    /\ hist' = [hist EXCEPT !.ev = NoEv]
    /\ UNCHANGED << bytes, findFilesVars, aggregateVars, nextId, calls,
                    disposes >>
    /\ UNCHANGED memoVars

FsDelete(path) ==
    /\ fsOps < MaxFsOps
    /\ calls + fsOps + disposes < MaxStimuli
    /\ path \in disk
    /\ disk' = disk \ {path}
    /\ events' = Append(events, [kind |-> "delete", path |-> path])
    /\ fsOps' = fsOps + 1
    /\ proc' = ForgetExpect
    /\ hist' = [hist EXCEPT !.ev = NoEv]
    /\ UNCHANGED << bytes, findFilesVars, aggregateVars, nextId, calls,
                    disposes >>
    /\ UNCHANGED memoVars

FsChange(path) ==
    /\ fsOps < MaxFsOps
    /\ calls + fsOps + disposes < MaxStimuli
    /\ path \in disk
    /\ bytes' = [bytes EXCEPT ![path] = @ + 1]
    /\ events' = Append(events, [kind |-> "change", path |-> path])
    /\ fsOps' = fsOps + 1
    /\ proc' = ForgetExpect
    /\ hist' = [hist EXCEPT !.ev = NoEv]
    /\ UNCHANGED << disk, findFilesVars, aggregateVars, nextId, calls, disposes >>
    /\ UNCHANGED memoVars

IsYml(path) == path \in YmlPaths
IsContent(path) == path \in ContentPaths

\* an event that changes the set of components or of content files
Structural(e) ==
    /\ e.kind \in {"create", "delete"}
    /\ IsYml(e.path) \/ IsContent(e.path)

\* the antora.yml watcher of findFiles.ts on the descriptor list
ConfigWatcherOnList(cache, e, id) ==
    IF ~(configWatcherCreated /\ IsYml(e.path)) THEN cache
    ELSE IF e.kind = "create" THEN ConfigOnDidCreate(cache, e.path, id)
    ELSE IF e.kind = "delete" THEN ConfigOnDidDelete(cache, e.path, id)
    ELSE cache

\* the watchers of findFiles.ts on the content map: onDidDelete of the
\* antora.yml watcher drops the component's entry, the content watcher clears
WatchersOnContent(content, e) ==
    LET afterConfig ==
            IF configWatcherCreated /\ IsYml(e.path) /\ e.kind = "delete"
            THEN MapDelete(content, contentGlobForConfigUri(e.path))
            ELSE content
    IN  IF contentWatcherCreated /\ IsContent(e.path)
        THEN ContentInvalidate(afterConfig, e.kind)
        ELSE afterConfig

\* onDidCreate of the antora.yml watcher issues a glob and suspends
WatcherTasks(e) ==
    IF configWatcherCreated /\ IsYml(e.path) /\ e.kind = "create"
    THEN Append(tasks, [glob |-> contentGlobForConfigUri(e.path),
                        done |-> FALSE, items |-> <<>>])
    ELSE tasks

\* the two watchers of antoraDocument.ts on the aggregate
AggregateWatchers(agg, e, id) ==
    LET afterContent ==
            IF ~IsContent(e.path) THEN agg
            ELSE IF e.kind = "create" THEN AggOnDidCreate(agg, e.path)
            ELSE IF e.kind = "change" THEN AggOnDidChange(agg, e.path)
            ELSE AggOnDidDelete(agg, e.path, id)
    IN  IF ~aggregateWatchersCreated THEN agg
        ELSE IF IsYml(e.path) THEN AggConfigInvalidate(afterContent, e.kind)
        ELSE afterContent

\* One watcher event is delivered: every installed handler it matches runs.
Deliver ==
    /\ events # <<>>
    /\ LET e == Head(events)
       IN  /\ events' = Tail(events)
           /\ antoraConfigFilesCache' =
                  ConfigWatcherOnList(antoraConfigFilesCache, e, nextId)
           /\ antoraContentFilesCache' =
                  WatchersOnContent(antoraContentFilesCache, e)
           /\ tasks' = WatcherTasks(e)
           /\ aggregateCache' = AggregateWatchers(aggregateCache, e, nextId + 1)
           /\ nextId' =
                  IF aggregateCache' # aggregateCache /\ e.kind = "delete"
                  THEN nextId + 2
                  ELSE IF antoraConfigFilesCache' # antoraConfigFilesCache
                  THEN nextId + 1
                  ELSE nextId
           /\ proc' = [p \in Procs |->
                         [proc[p] EXCEPT
                            !.quiet = FALSE,
                            !.expect = NoExpect,
                            !.prev = IF InFlight(proc[p]) THEN 0 ELSE @,
                            !.changed =
                                IF /\ e.kind = "change"
                                   /\ aggregateWatchersCreated
                                   /\ e.path \in DOMAIN proc[p].lazy
                                   /\ proc[p].lazy[e.path].loaded
                                   /\ e.path \notin proc[p].assigned
                                   /\ e.path \in disk
                                   /\ proc[p].lazy[e.path].lazyContents #
                                          ReadFileSync(e.path)
                                THEN @ \cup {e.path} ELSE @]]
           /\ hist' =
                [ ev |-> [ kind |-> e.kind, path |-> e.path,
                           cfgWas |-> IF configWatcherCreated
                                      THEN antoraConfigFilesCache ELSE NoArr,
                           contentWas |-> IF contentWatcherCreated
                                          THEN antoraContentFilesCache
                                          ELSE EmptyMap,
                           aggWas |-> IF aggregateWatchersCreated
                                      THEN aggregateCache ELSE NoAggregate ],
                  lastCfg |-> 0,
                  lastContent |-> [g \in ContentGlobs |-> 0],
                  lastCtx |-> [doc |-> <<>>, cat |-> 0],
                  raced |-> \/ hist.raced
                            \/ /\ Structural(e)
                               /\ aggregateWatchersCreated
                               /\ \E p \in Procs : Building(proc[p]),
                  ymlSeen |-> \/ hist.ymlSeen
                              \/ Structural(e) /\ IsYml(e.path),
                  findResetAt |-> hist.findResetAt,
                  aggResetAt |-> hist.aggResetAt,
                  made |-> hist.made,
                  dropPending |->
                      \/ hist.dropPending
                      \/ /\ IsYml(e.path)
                         /\ aggregateWatchersCreated
                         /\ aggregateCache # NoAggregate ]
    /\ UNCHANGED << disk, bytes, fsOps, configWatcherCreated,
                    contentWatcherCreated, aggregateWatchersCreated, calls,
                    disposes >>
    /\ UNCHANGED memoVars

\* the glob service lists the files for a suspended onDidCreate handler
TaskScan(i) ==
    /\ i \in 1..Len(tasks)
    /\ ~tasks[i].done
    /\ tasks' = [tasks EXCEPT ![i].done = TRUE,
                              ![i].items = FindFiles(tasks[i].glob, disk)]
    /\ hist' = [hist EXCEPT !.ev = NoEv]
    /\ UNCHANGED << fsVars, antoraConfigFilesCache, antoraContentFilesCache,
                    configWatcherCreated, contentWatcherCreated,
                    aggregateVars, proc, nextId, calls, disposes >>
    /\ UNCHANGED memoVars

\* the handler resumes: antoraContentFilesCache.set(glob, …)
TaskResume(i) ==
    /\ i \in 1..Len(tasks)
    /\ tasks[i].done
    /\ antoraContentFilesCache' =
           MapSet(antoraContentFilesCache, tasks[i].glob,
                  Arr(nextId, tasks[i].items))
    /\ tasks' = SubSeq(tasks, 1, i - 1) \o SubSeq(tasks, i + 1, Len(tasks))
    /\ nextId' = nextId + 1
    /\ proc' = [p \in Procs |-> [proc[p] EXCEPT !.prev =
                    IF @ # 0 /\ proc[p].op = "contentFiles" /\ InFlight(proc[p])
                    THEN 0 ELSE @]]
    /\ hist' = [hist EXCEPT !.ev = NoEv,
                            !.lastContent = [g \in ContentGlobs |-> 0]]
    /\ UNCHANGED << fsVars, antoraConfigFilesCache, configWatcherCreated,
                    contentWatcherCreated, aggregateVars, calls, disposes >>
    /\ UNCHANGED memoVars

----------------------------------------------------------------------------
(* The explicit resets. *)

disposeAntoraFileWatchers ==
    /\ disposes < MaxDispose
    /\ calls + fsOps + disposes < MaxStimuli
    /\ disposes' = disposes + 1
    /\ configWatcherCreated' = FALSE
    /\ contentWatcherCreated' = FALSE
    /\ antoraConfigFilesCache' = NoArr
    /\ antoraContentFilesCache' = EmptyMap
    /\ proc' = [p \in Procs |-> [proc[p] EXCEPT !.expect = NoExpect,
                    !.prev = IF InFlight(proc[p]) THEN 0 ELSE @]]
    /\ hist' = [hist EXCEPT !.ev = NoEv, !.lastCfg = 0,
                            !.lastContent = [g \in ContentGlobs |-> 0],
                            !.lastCtx = [doc |-> <<>>, cat |-> 0],
                            !.findResetAt = calls,
                            !.made.cfg = 0, !.made.content = 0]
    /\ UNCHANGED << fsVars, tasks, aggregateVars, nextId, calls >>
    /\ UNCHANGED memoVars

disposeContentAggregateCache ==
    /\ disposes < MaxDispose
    /\ calls + fsOps + disposes < MaxStimuli
    /\ disposes' = disposes + 1
    /\ aggregateWatchersCreated' = FALSE
    /\ aggregateCache' = NoAggregate
    /\ proc' = [p \in Procs |-> [proc[p] EXCEPT !.expect = NoExpect,
                    !.prev = IF InFlight(proc[p]) THEN 0 ELSE @]]
    /\ hist' = [hist EXCEPT !.ev = NoEv,
                            !.lastCtx = [doc |-> <<>>, cat |-> 0],
                            !.aggResetAt = calls, !.made.agg = 0]
    /\ UNCHANGED << fsVars, findFilesVars, nextId, calls >>
    /\ UNCHANGED memoVars

----------------------------------------------------------------------------
(* findAntoraConfigFiles and findAntoraContentFiles, called directly. *)

\* an ensure that creates its watcher on every call
EnsureAlways(created, n) == n + 1

\* ensureAntoraConfigWatcher, ensureAntoraContentWatcher and
\* ensureAggregateWatchers: the watchers created so far, after one more call
EnsureWatcher(created, n) == IF created THEN n ELSE n + 1

\* the same after k calls in a row: the first one sets the created flag
RECURSIVE EnsureTimes(_, _, _)
EnsureTimes(created, n, k) ==
    IF k = 0 THEN n
    ELSE EnsureTimes(TRUE, EnsureWatcher(created, n), k - 1)

\* a call takes the first slot that is free
CanStart(p) ==
    /\ proc[p].pc \in {"idle", "done"}
    /\ \A r \in 1..(p - 1) : InFlight(proc[r])
    /\ calls + fsOps + disposes < MaxStimuli

NewCall(op, arg) ==
    [IdleProc EXCEPT !.op = op, !.arg = arg, !.sawRace = hist.raced,
                     !.sawYml = hist.ymlSeen]

\* a call that issues its first glob and suspends
Suspended(q, pc) ==
    [q EXCEPT !.pc = pc, !.pend = {1}, !.snaps = <<NoSnap>>, !.globbed = TRUE]

\* what the event delivered by the last step lets the next call expect
ExpectConfig ==
    LET ev == hist.ev
    IN  IF /\ ev.kind \in {"create", "delete"}
           /\ IsYml(ev.path)
           /\ ev.cfgWas # NoArr
        THEN [kind |-> ev.kind, path |-> ev.path,
              oldLen |-> Len(ev.cfgWas.items),
              had |-> ev.path \in SeqToSet(ev.cfgWas.items)]
        ELSE NoExpect

ExpectContent(glob) ==
    LET ev == hist.ev
    IN  IF /\ ev.kind \in {"create", "delete"}
           /\ glob \in DOMAIN ev.contentWas
           /\ FindFiles(glob, {ev.path}) # <<>>
           /\ ev.kind = "create" => ev.path \in disk
           /\ ev.kind = "delete" => ev.path \notin disk
           /\ ev.contentWas[glob].items =
                  FindFiles(glob, IF ev.kind = "create"
                                  THEN disk \ {ev.path}
                                  ELSE disk \cup {ev.path})
        THEN [kind |-> ev.kind, path |-> ev.path,
              oldLen |-> Len(ev.contentWas[glob].items),
              had |-> ev.path \in SeqToSet(ev.contentWas[glob].items)]
        ELSE NoExpect

StartCfgFiles(p) ==
    /\ CanStart(p)
    /\ calls' = calls + 1
    /\ LET q == [NewCall("cfgFiles", <<>>) EXCEPT
                    !.prev = hist.lastCfg, !.expect = ExpectConfig]
       IN  IF antoraConfigFilesCache # NoArr
           THEN /\ proc' = [proc EXCEPT ![p] =
                      [q EXCEPT !.pc = "done", !.ret = antoraConfigFilesCache]]
                /\ hist' = [hist EXCEPT !.ev = NoEv,
                                        !.lastCfg = antoraConfigFilesCache.id]
                /\ UNCHANGED configWatcherCreated
           ELSE /\ configWatcherCreated' = TRUE
                /\ proc' = [proc EXCEPT ![p] = Suspended(q, "cfgGlob")]
                /\ hist' = [hist EXCEPT
                              !.ev = NoEv,
                              !.made.cfg =
                                  EnsureWatcher(configWatcherCreated, @)]
    /\ UNCHANGED << fsVars, antoraConfigFilesCache, antoraContentFilesCache,
                    contentWatcherCreated, tasks, aggregateVars, nextId,
                    disposes >>
    /\ UNCHANGED memoVars

StartContentFiles(p, prefix) ==
    /\ CanStart(p)
    /\ calls' = calls + 1
    /\ LET glob == ContentGlobOfPrefix(prefix)
           q == [NewCall("contentFiles", prefix) EXCEPT
                    !.prev = hist.lastContent[glob],
                    !.expect = ExpectContent(glob)]
       IN  IF glob \in DOMAIN antoraContentFilesCache
           THEN /\ proc' = [proc EXCEPT ![p] =
                      [q EXCEPT !.pc = "done",
                                !.ret = antoraContentFilesCache[glob]]]
                /\ hist' = [hist EXCEPT !.ev = NoEv,
                              !.lastContent[glob] =
                                  antoraContentFilesCache[glob].id]
                /\ UNCHANGED contentWatcherCreated
           ELSE /\ contentWatcherCreated' = TRUE
                /\ proc' = [proc EXCEPT ![p] = Suspended(q, "contentGlob")]
                /\ hist' = [hist EXCEPT
                              !.ev = NoEv,
                              !.made.content =
                                  EnsureWatcher(contentWatcherCreated, @)]
    /\ UNCHANGED << fsVars, antoraConfigFilesCache, antoraContentFilesCache,
                    configWatcherCreated, tasks, aggregateVars, nextId,
                    disposes >>
    /\ UNCHANGED memoVars

\* the glob a suspended call waits for
GlobOf(q, i) ==
    IF q.pc = "cfgGlob" THEN AntoraYmlGlob
    ELSE IF q.op = "contentFiles" THEN ContentGlobOfPrefix(q.arg)
    ELSE ContentGlobOfPrefix(PrefixOfRoot(q.roots[i]))

\* the glob service lists the files for a suspended call
Scan(p, i) ==
    /\ proc[p].pc \in {"cfgGlob", "contentGlob"}
    /\ i \in proc[p].pend
    /\ ~proc[p].snaps[i].done
    /\ proc' = [proc EXCEPT ![p].snaps[i] =
                  [done |-> TRUE, items |-> FindFiles(GlobOf(proc[p], i), disk),
                   failed |-> FALSE]]
    /\ hist' = [hist EXCEPT !.ev = NoEv]
    /\ UNCHANGED << fsVars, findFilesVars, aggregateVars, nextId, calls,
                    disposes >>
    /\ UNCHANGED memoVars

Resumable(p, op, pc, i) ==
    /\ proc[p].op = op
    /\ proc[p].pc = pc
    /\ i \in proc[p].pend
    /\ proc[p].snaps[i].done
    /\ ~proc[p].snaps[i].failed

\* antoraConfigFilesCache = await findFiles('**/antora.yml'); return it
ResumeCfgFiles(p) ==
    /\ Resumable(p, "cfgFiles", "cfgGlob", 1)
    /\ antoraConfigFilesCache' = Arr(nextId, proc[p].snaps[1].items)
    /\ nextId' = nextId + 1
    /\ proc' = [proc EXCEPT ![p].pc = "done", ![p].pend = {},
                            ![p].ret = antoraConfigFilesCache']
    /\ hist' = [hist EXCEPT !.ev = NoEv, !.lastCfg = nextId]
    /\ UNCHANGED << fsVars, antoraContentFilesCache, configWatcherCreated,
                    contentWatcherCreated, tasks, aggregateVars, calls,
                    disposes >>
    /\ UNCHANGED memoVars

\* antoraContentFilesCache.set(glob, files); return files
ResumeContentFiles(p) ==
    /\ Resumable(p, "contentFiles", "contentGlob", 1)
    /\ LET glob == ContentGlobOfPrefix(proc[p].arg)
           files == Arr(nextId, proc[p].snaps[1].items)
       IN  /\ antoraContentFilesCache' =
                  MapSet(antoraContentFilesCache, glob, files)
           /\ proc' = [proc EXCEPT ![p].pc = "done", ![p].pend = {},
                                   ![p].ret = files]
           /\ hist' = [hist EXCEPT !.ev = NoEv, !.lastContent[glob] = nextId]
    /\ nextId' = nextId + 1
    /\ UNCHANGED << fsVars, antoraConfigFilesCache, configWatcherCreated,
                    contentWatcherCreated, tasks, aggregateVars, calls,
                    disposes >>
    /\ UNCHANGED memoVars

----------------------------------------------------------------------------
(* findAntoraConfigFile. *)

StartCfgFile(p, doc) ==
    /\ CanStart(p)
    /\ calls' = calls + 1
    /\ LET q == NewCall("cfgFile", doc)
       IN  IF antoraConfigFilesCache # NoArr
           THEN /\ proc' = [proc EXCEPT ![p] =
                      [q EXCEPT !.pc = "done",
                                !.uris = antoraConfigFilesCache.items,
                                !.uri = FirstMatch(antoraConfigFilesCache.items,
                                                   doc)]]
                /\ hist' = [hist EXCEPT !.ev = NoEv,
                                        !.lastCfg = antoraConfigFilesCache.id]
                /\ UNCHANGED configWatcherCreated
           ELSE /\ configWatcherCreated' = TRUE
                /\ proc' = [proc EXCEPT ![p] = Suspended(q, "cfgGlob")]
                /\ hist' = [hist EXCEPT
                              !.ev = NoEv,
                              !.made.cfg =
                                  EnsureWatcher(configWatcherCreated, @)]
    /\ UNCHANGED << fsVars, antoraConfigFilesCache, antoraContentFilesCache,
                    contentWatcherCreated, tasks, aggregateVars, nextId,
                    disposes >>
    /\ UNCHANGED memoVars

ResumeCfgFile(p) ==
    /\ Resumable(p, "cfgFile", "cfgGlob", 1)
    /\ antoraConfigFilesCache' = Arr(nextId, proc[p].snaps[1].items)
    /\ nextId' = nextId + 1
    /\ proc' = [proc EXCEPT
                  ![p].pc = "done", ![p].pend = {},
                  ![p].uris = proc[p].snaps[1].items,
                  ![p].uri = FirstMatch(proc[p].snaps[1].items, proc[p].arg)]
    /\ hist' = [hist EXCEPT !.ev = NoEv, !.lastCfg = nextId]
    /\ UNCHANGED << fsVars, antoraContentFilesCache, configWatcherCreated,
                    contentWatcherCreated, tasks, aggregateVars, calls,
                    disposes >>
    /\ UNCHANGED memoVars

----------------------------------------------------------------------------
(* getAntoraDocumentContext. *)

\* the end of a build: the aggregate is committed, then classified
Committed(q, roots, files, fsKeys, id) ==
    LET agg == NewAggregate(id, roots, files, fsKeys)
        cat == ClassifyContent(id + 2, agg.descriptors, files)
    IN  [q EXCEPT !.roots = roots, !.files = files, !.fsKeys = fsKeys,
                  !.pend = {}, !.cat = cat,
                  !.lazy = InstallAccessors(cat, fsKeys),
                  !.pc = IF cat = NoCatalog THEN "done" ELSE "getResource"]

\* the cached path: the entries are rebuilt around the cached file arrays
\* and classified
FromCache(q, agg, id) ==
    LET cat == ClassifyContent(id, agg.descriptors, agg.filesByComponent)
    IN  [q EXCEPT !.hit = TRUE,
                  !.checked = [id |-> agg.id,
                               files |-> PathsOf(agg.filesByComponent)],
                  !.roots = agg.rootPaths,
                  !.files = agg.filesByComponent,
                  !.fsKeys = agg.fsPathByAbsPath.keys,
                  !.cat = cat,
                  !.lazy = InstallAccessors(cat, agg.fsPathByAbsPath.keys),
                  !.pc = IF cat = NoCatalog THEN "done" ELSE "getResource"]

\* getAntoraConfigs once the descriptor list is known: nothing to stat for
\* an empty list, so the build runs to its end
WithList(q, list, id) ==
    IF list = <<>> THEN Committed(q, <<>>, <<>>, {}, id)
    ELSE [q EXCEPT !.uris = list, !.pc = "parse", !.pend = {}]

StartCtx(p, doc) ==
    /\ CanStart(p)
    /\ calls' = calls + 1
    /\ aggregateWatchersCreated' = TRUE
    /\ LET q == [NewCall("ctx", doc) EXCEPT
                    !.prev = IF hist.lastCtx.doc = doc
                             THEN hist.lastCtx.cat ELSE 0]
       IN  IF aggregateCache # NoAggregate
           THEN /\ proc' = [proc EXCEPT ![p] =
                              FromCache(q, aggregateCache, nextId)]
                /\ hist' = [hist EXCEPT
                              !.ev = NoEv,
                              !.dropPending = FALSE,
                              !.made.agg =
                                  EnsureWatcher(aggregateWatchersCreated, @)]
                /\ UNCHANGED << aggregateCache, configWatcherCreated >>
           ELSE IF antoraConfigFilesCache # NoArr
           THEN /\ proc' = [proc EXCEPT ![p] =
                      WithList(q, antoraConfigFilesCache.items, nextId)]
                /\ aggregateCache' =
                      IF antoraConfigFilesCache.items = <<>>
                      THEN NewAggregate(nextId, <<>>, <<>>, {})
                      ELSE aggregateCache
                /\ hist' = [hist EXCEPT
                              !.ev = NoEv,
                              !.lastCfg = antoraConfigFilesCache.id,
                              !.dropPending = FALSE,
                              !.made.agg =
                                  EnsureWatcher(aggregateWatchersCreated, @)]
                /\ UNCHANGED configWatcherCreated
           ELSE /\ configWatcherCreated' = TRUE
                /\ proc' = [proc EXCEPT ![p] = Suspended(q, "cfgGlob")]
                /\ hist' = [hist EXCEPT
                              !.ev = NoEv,
                              !.dropPending = FALSE,
                              !.made.cfg =
                                  EnsureWatcher(configWatcherCreated, @),
                              !.made.agg =
                                  EnsureWatcher(aggregateWatchersCreated, @)]
                /\ UNCHANGED aggregateCache
    /\ nextId' = IF aggregateCache # NoAggregate THEN nextId + 1
                 ELSE IF antoraConfigFilesCache = Arr(antoraConfigFilesCache.id, <<>>)
                         /\ antoraConfigFilesCache # NoArr
                 THEN nextId + 3
                 ELSE nextId
    /\ UNCHANGED << fsVars, antoraConfigFilesCache, antoraContentFilesCache,
                    contentWatcherCreated, tasks, disposes >>
    /\ UNCHANGED memoVars

CtxResumeConfigGlob(p) ==
    /\ Resumable(p, "ctx", "cfgGlob", 1)
    /\ LET list == proc[p].snaps[1].items
       IN  /\ antoraConfigFilesCache' = Arr(nextId, list)
           /\ proc' = [proc EXCEPT ![p] = WithList(proc[p], list, nextId + 1)]
           /\ aggregateCache' =
                  IF list = <<>> THEN NewAggregate(nextId + 1, <<>>, <<>>, {})
                  ELSE aggregateCache
    /\ nextId' = IF proc[p].snaps[1].items = <<>> THEN nextId + 4
                 ELSE nextId + 1
    /\ hist' = [hist EXCEPT !.ev = NoEv, !.lastCfg = nextId]
    /\ UNCHANGED << fsVars, antoraContentFilesCache, configWatcherCreated,
                    contentWatcherCreated, tasks, aggregateWatchersCreated,
                    calls, disposes >>
    /\ UNCHANGED memoVars

\* getAntoraConfigs has read the descriptors; the valid ones each call
\* findAntoraContentFiles: a cached list is used at once, a missing one
\* installs the content watcher and issues a glob
CtxParse(p) ==
    /\ proc[p].op = "ctx"
    /\ proc[p].pc = "parse"
    /\ LET q     == proc[p]
           roots == ValidRoots(q.uris, disk)
           n     == Len(roots)
           glob(i) == ContentGlobOfPrefix(PrefixOfRoot(roots[i]))
           hits  == {i \in 1..n : glob(i) \in DOMAIN antoraContentFilesCache}
           files == [i \in 1..n |->
                       IF i \in hits
                       THEN BuildFiles(nextId + i,
                                antoraContentFilesCache[glob(i)].items, roots[i])
                       ELSE NoArr]
           fsKeys == UNION { SeqToSet(antoraContentFilesCache[glob(i)].items) :
                             i \in hits }
       IN  /\ IF hits = 1..n
              THEN /\ proc' = [proc EXCEPT ![p] =
                         Committed(q, roots, files, fsKeys, nextId + n + 1)]
                   /\ aggregateCache' =
                         NewAggregate(nextId + n + 1, roots, files, fsKeys)
                   /\ UNCHANGED contentWatcherCreated
              ELSE /\ proc' = [proc EXCEPT ![p] =
                         [q EXCEPT !.roots = roots, !.files = files,
                                   !.fsKeys = fsKeys,
                                   !.pend = (1..n) \ hits,
                                   !.snaps = [i \in 1..n |-> NoSnap],
                                   !.pc = "contentGlob", !.globbed = TRUE]]
                   /\ contentWatcherCreated' = TRUE
                   /\ UNCHANGED aggregateCache
           /\ nextId' = IF hits = 1..n THEN nextId + n + 4 ELSE nextId + n
           /\ hist' = [hist EXCEPT
                         !.ev = NoEv,
                         !.made.content =
                             EnsureTimes(contentWatcherCreated, @,
                                         n - Cardinality(hits)),
                         !.lastContent = [g \in ContentGlobs |->
                             IF \E i \in hits : glob(i) = g
                             THEN antoraContentFilesCache[g].id ELSE @[g]]]
    /\ UNCHANGED << fsVars, antoraConfigFilesCache, antoraContentFilesCache,
                    configWatcherCreated, tasks, aggregateWatchersCreated,
                    calls, disposes >>
    /\ UNCHANGED memoVars

\* one findAntoraContentFiles of the build resumes; the build runs to its
\* end when it was the last one
CtxResumeContentGlob(p, i) ==
    /\ Resumable(p, "ctx", "contentGlob", i)
    /\ LET q      == proc[p]
           list   == q.snaps[i].items
           glob   == GlobOf(q, i)
           files  == [q.files EXCEPT
                         ![i] = BuildFiles(nextId + 1, list, q.roots[i])]
           fsKeys == q.fsKeys \cup SeqToSet(list)
       IN  /\ antoraContentFilesCache' =
                  MapSet(antoraContentFilesCache, glob, Arr(nextId, list))
           /\ IF q.pend = {i}
              THEN /\ proc' = [proc EXCEPT ![p] =
                         Committed(q, q.roots, files, fsKeys, nextId + 2)]
                   /\ aggregateCache' =
                         NewAggregate(nextId + 2, q.roots, files, fsKeys)
              ELSE /\ proc' = [proc EXCEPT ![p].files = files,
                                           ![p].fsKeys = fsKeys,
                                           ![p].pend = q.pend \ {i}]
                   /\ UNCHANGED aggregateCache
           /\ hist' = [hist EXCEPT !.ev = NoEv, !.lastContent[glob] = nextId]
    /\ nextId' = IF proc[p].pend = {i} THEN nextId + 5 ELSE nextId + 2
    /\ UNCHANGED << fsVars, antoraConfigFilesCache, configWatcherCreated,
                    contentWatcherCreated, tasks, aggregateWatchersCreated,
                    calls, disposes >>
    /\ UNCHANGED memoVars

\* getResource has resolved: the context, or undefined when the document is
\* not in the catalog
CtxReturn(p) ==
    /\ proc[p].op = "ctx"
    /\ proc[p].pc = "getResource"
    /\ LET cat == ContextAfterAwait(proc[p].cat, aggregateCache)
           ok  == GetResource(cat, proc[p].arg)
       IN  /\ proc' = [proc EXCEPT ![p].pc = "done", ![p].cat = cat,
                                   ![p].ok = ok]
           /\ hist' = [hist EXCEPT
                         !.ev = NoEv,
                         !.lastCtx = IF ok /\ proc[p].quiet
                                     THEN [doc |-> proc[p].arg, cat |-> cat.id]
                                     ELSE [doc |-> <<>>, cat |-> 0]]
    /\ UNCHANGED << fsVars, findFilesVars, aggregateVars, nextId, calls,
                    disposes >>
    /\ UNCHANGED memoVars

----------------------------------------------------------------------------
(* The lazy `contents` accessors of the catalog a call handed back.  The  *)
(* client (the include processor) reads and assigns file.contents.        *)

RECURSIVE SumAccesses(_)
SumAccesses(P) ==
    IF P = {} THEN 0
    ELSE LET p == CHOOSE x \in P : TRUE
         IN  proc[p].accesses + SumAccesses(P \ {p})

\* file.contents is read: get()
ReadContents(p, f) ==
    /\ proc[p].op = "ctx"
    /\ proc[p].pc = "done"
    /\ proc[p].ok
    /\ f \in DOMAIN proc[p].lazy
    /\ SumAccesses(Procs) < MaxAccesses
    /\ LET q     == proc[p]
           g     == LazyGet(q.lazy[f], f)
           threw == g.read /\ ReadThrows(f, disk)
           acc   == IF threw THEN q.lazy[f] ELSE g.acc
           got   == [ path        |-> f,
                      value       |-> IF threw THEN Null ELSE acc.lazyContents,
                      read        |-> g.read,
                      threw       |-> threw,
                      missing     |-> f \notin disk,
                      afterChange |-> f \in q.changed,
                      fresh       |-> /\ ~threw
                                      /\ f \in disk
                                      /\ acc.lazyContents = ReadFileSync(f) ]
       IN  proc' = [proc EXCEPT
                      ![p].lazy[f] = acc,
                      ![p].accesses = @ + 1,
                      ![p].reads[f] = IF g.read /\ ~threw THEN @ + 1 ELSE @,
                      ![p].first[f] = IF q.reads[f] = 0 /\ g.read /\ ~threw
                                      THEN acc.lazyContents ELSE @,
                      ![p].touched = @ \cup {f},
                      ![p].changed = @ \ {f},
                      ![p].got = got]
    /\ hist' = [hist EXCEPT !.ev = NoEv]
    /\ UNCHANGED << fsVars, findFilesVars, aggregateVars, nextId, calls,
                    disposes >>
    /\ UNCHANGED memoVars

\* file.contents = null: set(v)
AssignContents(p, f) ==
    /\ proc[p].op = "ctx"
    /\ proc[p].pc = "done"
    /\ proc[p].ok
    /\ f \in DOMAIN proc[p].lazy
    /\ SumAccesses(Procs) < MaxAccesses
    /\ proc' = [proc EXCEPT
                  ![p].lazy[f] = LazySet(@, Null),
                  ![p].accesses = @ + 1,
                  ![p].touched = @ \cup {f},
                  ![p].assigned = @ \cup {f},
                  ![p].changed = @ \ {f},
                  ![p].got = NoGot]
    /\ hist' = [hist EXCEPT !.ev = NoEv]
    /\ UNCHANGED << fsVars, findFilesVars, aggregateVars, nextId, calls,
                    disposes >>
    /\ UNCHANGED memoVars

----------------------------------------------------------------------------

Next ==
    \/ \E path \in TwoRoots : FsCreate(path)
    \/ \E path \in TwoRoots : FsDelete(path)
    \/ \E path \in TwoRoots : FsChange(path)
    \/ Deliver
    \/ \E i \in 1..Len(tasks) : TaskScan(i)
    \/ \E i \in 1..Len(tasks) : TaskResume(i)
    \/ disposeAntoraFileWatchers
    \/ disposeContentAggregateCache
    \/ \E p \in Procs : StartCfgFiles(p)
    \/ \E p \in Procs, prefix \in Prefixes : StartContentFiles(p, prefix)
    \/ \E p \in Procs, doc \in ResolvedDocuments : StartCfgFile(p, doc)
    \/ \E p \in Procs, doc \in Documents : StartCtx(p, doc)
    \/ \E p \in Procs, i \in 1..Len(AllPaths) : Scan(p, i)
    \/ \E p \in Procs : ResumeCfgFiles(p)
    \/ \E p \in Procs : ResumeContentFiles(p)
    \/ \E p \in Procs : ResumeCfgFile(p)
    \/ \E p \in Procs : CtxResumeConfigGlob(p)
    \/ \E p \in Procs : CtxParse(p)
    \/ \E p \in Procs, i \in 1..Len(AllPaths) : CtxResumeContentGlob(p, i)
    \/ \E p \in Procs : CtxReturn(p)

Spec == Init /\ [][Next]_vars

\* The runs of getAntoraDocumentContext and of the clients of its catalogs:
\* the calls of the context, the filesystem, the watchers and the accesses
\* to file contents.  (The accesses touch nothing but the accessors of a
\* catalog already handed back, so the runs of Spec go without them.)
NextLazy ==
    \/ \E path \in TwoRoots : FsDelete(path)
    \/ \E path \in TwoRoots : FsChange(path)
    \/ Deliver
    \/ disposeContentAggregateCache
    \/ \E p \in Procs, doc \in Documents : StartCtx(p, doc)
    \/ \E p \in Procs, i \in 1..Len(AllPaths) : Scan(p, i)
    \/ \E p \in Procs : CtxResumeConfigGlob(p)
    \/ \E p \in Procs : CtxParse(p)
    \/ \E p \in Procs, i \in 1..Len(AllPaths) : CtxResumeContentGlob(p, i)
    \/ \E p \in Procs : CtxReturn(p)
    \/ \E p \in Procs, f \in PathSet : ReadContents(p, f)
    \/ \E p \in Procs, f \in PathSet : AssignContents(p, f)

\* these runs start from the workspace of one component: a page and a partial
InitLazy ==
    /\ disk = {ConfigUri(RootA), PageX(RootA), PartY(RootA)}
    /\ bytes = [f \in PathSet |-> 0]
    /\ events = <<>>
    /\ fsOps = 0
    /\ antoraConfigFilesCache = NoArr
    /\ antoraContentFilesCache = EmptyMap
    /\ configWatcherCreated = FALSE
    /\ contentWatcherCreated = FALSE
    /\ tasks = <<>>
    /\ aggregateCache = NoAggregate
    /\ aggregateWatchersCreated = FALSE
    /\ proc = [p \in Procs |-> IdleProc]
    /\ nextId = 1
    /\ calls = 0
    /\ disposes = 0
    /\ hist = InitHist
    /\ InitMemo

SpecLazy == InitLazy /\ [][NextLazy]_vars

----------------------------------------------------------------------------
(* Properties of the caches. *)

Done(p, op) == proc[p].op = op /\ proc[p].pc = "done"

\* every call has returned, no event and no handler is pending
Quiescent ==
    /\ events = <<>>
    /\ tasks = <<>>
    /\ \A p \in Procs : ~InFlight(proc[p])

\* C1: a getAntoraDocumentContext(D) that returns a context, started after
\* another one for D returned a context, with no watcher event and no reset
\* from the start of the first to the end of the second, returns the catalog
\* object the first returned.
C1_SameCatalog ==
    \A p \in Procs :
        (Done(p, "ctx") /\ proc[p].ok /\ proc[p].prev # 0)
            => proc[p].cat.id = proc[p].prev

ChangedRecords(a, b) ==
    { ij \in (1..Len(a.filesByComponent)) \X (1..Len(AllPaths)) :
        /\ ij[2] <= Len(a.filesByComponent[ij[1]].items)
        /\ a.filesByComponent[ij[1]].items[ij[2]] #
               b.filesByComponent[ij[1]].items[ij[2]] }

C4_FreshAfterOverlap ==
    \A p \in Procs :
        (Done(p, "ctx") /\ proc[p].ok /\ proc[p].sawRace /\ proc[p].quiet
            /\ Quiescent)
            => proc[p].cat.files = FreshFiles(disk)

\* C5: a call that found the aggregate cached saw a present object at the
\* check, and the catalog it returns with after its await (when the
\* classifier accepted the files) holds exactly the files that object held
\* at the check, whatever the watchers did to the slot while the call was
\* suspended.
C5_UsesCheckedObject ==
    \A p \in Procs :
        (proc[p].op = "ctx" /\ proc[p].hit) =>
            /\ proc[p].checked.id # 0
            /\ (proc[p].pc = "done" /\ proc[p].cat # NoCatalog) =>
                  proc[p].cat.files = proc[p].checked.files

\* C5 happens: a call served from the cache has returned a context after the
\* slot was emptied or refilled during its await.
C5_Witness ==
    \E p \in Procs :
        /\ Done(p, "ctx")
        /\ proc[p].hit
        /\ proc[p].ok
        /\ ~proc[p].quiet
        /\ aggregateCache.id # proc[p].checked.id

\* the default of asciidoc.antora.excludePathsMatching
ExcludePatterns == {"node_modules"}

\* rx.test(uri.path) for one of the exclusion patterns
Excluded(path) == \E i \in 1..Len(path) : path[i] \in ExcludePatterns

\* C6: no returned descriptor list holds an excluded antora.yml,
\* findAntoraConfigFile returns none, and no returned catalog holds a file
\* of the component of one.
C6_ExcludedNeverSeen ==
    \A p \in Procs :
        /\ Done(p, "cfgFiles") =>
              \A i \in 1..Len(proc[p].ret.items) : ~Excluded(proc[p].ret.items[i])
        /\ Done(p, "cfgFile") => ~Excluded(proc[p].uri)
        /\ (Done(p, "ctx") /\ proc[p].ok) =>
              \A f \in proc[p].cat.files, y \in YmlPaths :
                  Excluded(y) => ~StartsWith(f, ParentDir(y) \o <<Sl>>)

\* C8: with the descriptor list cached and its watcher installed, the
\* findAntoraConfigFiles called right after a create event was handled
\* returns a longer list that holds the new URI; called right after the
\* delete event of a cached URI was handled, a shorter list without it.
C8_ListFollowsEvent ==
    \A p \in Procs :
        LET e == proc[p].expect
            items == proc[p].ret.items
        IN  (proc[p].op = "cfgFiles" /\ e.kind # "none") =>
                /\ proc[p].pc = "done"
                /\ e.kind = "create" =>
                      /\ Len(items) > e.oldLen
                      /\ e.path \in SeqToSet(items)
                /\ (e.kind = "delete" /\ e.had) =>
                      /\ Len(items) < e.oldLen
                      /\ e.path \notin SeqToSet(items)

\* C8 happens: the call right after the create event of an antora.yml.
C8_Witness ==
    \E p \in Procs :
        /\ Done(p, "cfgFiles")
        /\ proc[p].expect.kind = "create"
        /\ proc[p].expect.oldLen > 0

----------------------------------------------------------------------------
(* findAntoraConfigFile as a function of the discovered list and the       *)
(* document: the list is cached, the call resolves at once.                *)

RootNested == PageX(RootA) \o <<Sl, "sub">>
RootB == WorkspaceFolder \o <<Sl, "b">>
\* a component directory that is itself named modules
RootM == RootB \o <<Sl, "modules">>

\* the descriptors a discovered list may hold
ResolveCandidates ==
    {ConfigUri(RootA), ConfigUri(RootNested), ConfigUri(RootB), ConfigUri(RootM)}

\* the discovered lists: the candidates in any order, none twice
ResolveLists ==
    { l \in UNION { [1..n -> ResolveCandidates] : n \in 0..3 } :
        \A i, j \in 1..Len(l) : i # j => l[i] # l[j] }

\* the documents asked about
ResolveDocs ==
    { PageX(RootA),
      RootA \o <<Sl, "modules", Sl, "m", Sl, "pages", Sl>>,
      RootA \o <<Sl, "modules", Sl, "m", Sl, "pages">>,
      RootA \o <<Sl, "modules", "X", Sl, "m", Sl, "pages", Sl, "x">>,
      RootA \o <<Sl, "modules", Sl, Sl, "m", Sl, ".", Sl, "pages", Sl, "x">>,
      RootA \o <<Sl, "modules", Sl, "pages", Sl, "x">>,
      RootA \o <<Sl, "modules", Sl, "m", Sl, "k", Sl, "pages", Sl, "x">>,
      RootA \o <<Sl, "module", Sl, "commands", Sl, "pages", Sl, "convert">>,
      PartY(RootA),
      PageX(RootNested),
      RootB \o <<Sl, "readme">>,
      RootM \o <<Sl, "blocks", Sl, "pages", Sl, "admonition">>,
      RootB \o <<Sl, "x", Sl, "..", Sl, "modules", Sl, "m", Sl, "pages", Sl, "x">> }

InitResolve ==
    /\ disk = {}
    /\ bytes = [f \in PathSet |-> 0]
    /\ events = <<>>
    /\ fsOps = 0
    /\ \E l \in ResolveLists : antoraConfigFilesCache = Arr(1, l)
    /\ antoraContentFilesCache = EmptyMap
    /\ configWatcherCreated = TRUE
    /\ contentWatcherCreated = FALSE
    /\ tasks = <<>>
    /\ aggregateCache = NoAggregate
    /\ aggregateWatchersCreated = FALSE
    /\ proc = [p \in Procs |-> IdleProc]
    /\ nextId = 2
    /\ calls = 0
    /\ disposes = 0
    /\ hist = InitHist
    /\ InitMemo

NextResolve == \E p \in Procs, doc \in ResolveDocs : StartCfgFile(p, doc)

SpecResolve == InitResolve /\ [][NextResolve]_vars

\* D = <root of R>/modules/<segment>/pages/<suffix> with one non-empty
\* segment, read off the segments of the normalized document path; the
\* suffix is what follows the separator after pages
HasShape(doc, configUri) ==
    LET segs == Split(Normalize(doc))
        root == Split(ParentDir(configUri))
        n    == Len(root)
    IN  /\ Len(segs) >= n + 4
        /\ SubSeq(segs, 1, n) = root
        /\ segs[n + 1] = <<"modules">>
        /\ segs[n + 2] # <<>>
        /\ segs[n + 3] = <<"pages">>

SuffixOf(doc, configUri) ==
    LET segs == Split(Normalize(doc))
        n    == Len(Split(ParentDir(configUri)))
    IN  JoinSegs(SubSeq(segs, n + 5, Len(segs)))

----------------------------------------------------------------------------
(* Properties of the lazy contents accessors (runs of SpecLazy). *)

\* the calls that hold a catalog
WithCatalog(p) == proc[p].op = "ctx" /\ proc[p].cat # NoCatalog

\* C11: for every catalog file with an accessor that was never assigned:
\* the file is read from disk at most once; once loaded it was read exactly
\* once and holds the bytes that read stored; and every read that returns
\* returns those bytes, the later ones without reading the disk, whatever
\* happened to the file in between.  (A read of a file that is gone throws
\* and stores nothing.)
C11_ReadOnce ==
    \A p \in Procs :
        WithCatalog(p) =>
            /\ \A f \in (DOMAIN proc[p].lazy) \ proc[p].assigned :
                  /\ proc[p].reads[f] <= 1
                  /\ proc[p].lazy[f].loaded =>
                        /\ proc[p].reads[f] = 1
                        /\ proc[p].lazy[f].lazyContents = proc[p].first[f]
            /\ LET got == proc[p].got
               IN  (got.path # <<>> /\ ~got.threw
                        /\ got.path \notin proc[p].assigned) =>
                       /\ got.value = proc[p].first[got.path]
                       /\ got.value # Null

\* C11 happens: a second read of a file returned without reading the disk,
\* after the first one had read it.
C11_Witness ==
    \E p \in Procs :
        /\ WithCatalog(p)
        /\ proc[p].got.path # <<>>
        /\ ~proc[p].got.read
        /\ ~proc[p].got.threw
        /\ proc[p].reads[proc[p].got.path] = 1
        /\ proc[p].got.path \notin proc[p].assigned

\* C12: once a file of a catalog was loaded, then modified on disk, and the
\* change event has been handled, the file's accessor is unloaded, and the
\* next read of it reads the disk and returns the bytes then on disk.
C12_ChangeReloads ==
    \A p \in Procs :
        WithCatalog(p) =>
            /\ \A f \in proc[p].changed : ~proc[p].lazy[f].loaded
            /\ (proc[p].got.afterChange /\ ~proc[p].got.threw) =>
                  /\ proc[p].got.read
                  /\ proc[p].got.fresh

\* C13: a file of a catalog is loaded only when its contents were read or
\* assigned after the build: right after the build every accessor is
\* unloaded, and every record of an aggregate, cached or being built, has
\* null contents.
C13_BuiltUnloaded ==
    /\ \A p \in Procs :
          /\ WithCatalog(p) =>
                \A f \in DOMAIN proc[p].lazy :
                    proc[p].lazy[f].loaded => f \in proc[p].touched
          /\ \A i \in 1..Len(proc[p].files) :
                \A j \in 1..Len(proc[p].files[i].items) :
                    proc[p].files[i].items[j].contents = "null"
    /\ \A i \in 1..Len(aggregateCache.filesByComponent) :
          \A j \in 1..Len(aggregateCache.filesByComponent[i].items) :
              aggregateCache.filesByComponent[i].items[j].contents = "null"

\* C13 happens: a call served from the cached aggregate has just built its
\* catalog, every file of it unloaded, while the catalog of an earlier call
\* has one of these files loaded.
C13_Witness ==
    \E p, r \in Procs :
        /\ WithCatalog(p)
        /\ proc[p].hit
        /\ proc[p].pc = "getResource"
        /\ WithCatalog(r)
        /\ \E f \in DOMAIN proc[r].lazy :
              /\ proc[r].lazy[f].loaded
              /\ f \in DOMAIN proc[p].lazy
        /\ \A f \in DOMAIN proc[p].lazy : ~proc[p].lazy[f].loaded

----------------------------------------------------------------------------
(* Properties of the aggregate handed to the classifier (runs of Spec). *)

\* the calls that have handed their entries to classifyContent
Classified(p) == proc[p].op = "ctx" /\ proc[p].pc \in {"getResource", "done"}

\* the array objects of some file lists
ArrayIds(lists) == {lists[i].id : i \in 1..Len(lists)}

\* C14: no files array a call handed to the classifier is an array held in
\* the cached aggregate, and none was handed to the classifier by another
\* call.
C14_FreshArrays ==
    \A p \in Procs :
        Classified(p) =>
            /\ ArrayIds(proc[p].files)
                    \cap ArrayIds(aggregateCache.filesByComponent) = {}
            /\ \A r \in Procs \ {p} :
                  Classified(r) =>
                      ArrayIds(proc[p].files) \cap ArrayIds(proc[r].files) = {}

----------------------------------------------------------------------------
(* The aggregate build as a function of the descriptors on disk: the calls *)
(* of getAntoraDocumentContext over workspaces whose two descriptors hold  *)
(* any of the key sets and whose roots may be symbolic links.              *)

InitBuild ==
    /\ \E links \in SUBSET {RootA, RootN} :
          disk = {ConfigUri(RootA), ConfigUri(RootN), PageX(RootA),
                  PageX(RootN)} \cup links
    /\ \E v \in [YmlPaths \cap TwoRoots -> 0..3] :
          bytes = [f \in PathSet |->
                      IF f \in YmlPaths \cap TwoRoots THEN v[f] ELSE 0]
    /\ events = <<>>
    /\ fsOps = 0
    /\ antoraConfigFilesCache = NoArr
    /\ antoraContentFilesCache = EmptyMap
    /\ configWatcherCreated = FALSE
    /\ contentWatcherCreated = FALSE
    /\ tasks = <<>>
    /\ aggregateCache = NoAggregate
    /\ aggregateWatchersCreated = FALSE
    /\ proc = [p \in Procs |-> IdleProc]
    /\ nextId = 1
    /\ calls = 0
    /\ disposes = 0
    /\ hist = InitHist
    /\ InitMemo

NextBuild ==
    \/ \E p \in Procs, doc \in Documents : StartCtx(p, doc)
    \/ \E p \in Procs, i \in 1..Len(AllPaths) : Scan(p, i)
    \/ \E p \in Procs : CtxResumeConfigGlob(p)
    \/ \E p \in Procs : CtxParse(p)
    \/ \E p \in Procs, i \in 1..Len(AllPaths) : CtxResumeContentGlob(p, i)
    \/ \E p \in Procs : CtxReturn(p)

SpecBuild == InitBuild /\ [][NextBuild]_vars

\* the descriptors of a list that may take part in the aggregate: the parent
\* directory is no symbolic link and the config has a name and a version
Participating(uris) ==
    { u \in SeqToSet(uris) :
        /\ ParentDir(u) \notin disk
        /\ {"name", "version"} \subseteq ParsedKeys(u, disk) }

----------------------------------------------------------------------------
(* Properties of the content-file lists of findFiles.ts (runs of Spec). *)

\* C16: when the change of a content file is handled, every list that
\* findAntoraContentFiles had cached is still cached afterwards, as the same
\* array.
C16_ChangeKeepsIndex ==
    LET ev == hist.ev
    IN  (ev.kind = "change" /\ IsContent(ev.path)) =>
            \A g \in DOMAIN ev.contentWas :
                /\ g \in DOMAIN antoraContentFilesCache
                /\ antoraContentFilesCache[g] = ev.contentWas[g]

\* C17: when the creation or deletion of a content file is handled, the
\* cached list of the component root above the file is dropped, and the
\* cached list of every other root is still cached, as the same array.
C17_ScopedInvalidation ==
    LET ev == hist.ev
    IN  (ev.kind \in {"create", "delete"} /\ IsContent(ev.path)) =>
            \A g \in DOMAIN ev.contentWas :
                IF FindFiles(g, {ev.path}) # <<>>
                THEN g \notin DOMAIN antoraContentFilesCache
                ELSE /\ g \in DOMAIN antoraContentFilesCache
                     /\ antoraContentFilesCache[g] = ev.contentWas[g]

----------------------------------------------------------------------------
(* Properties of findAntoraConfigFile over the runs of Spec. *)

\* C18: a findAntoraConfigFile(D) that starts after the create or delete
\* event of an antora.yml was delivered (also one delivered while an earlier
\* call was suspended on its glob), and returns with no file changed and no
\* event delivered since its start, returns what the matching rule gives
\* for D over the descriptors now on disk.
C18_MatchesCurrentSet ==
    \A p \in Procs :
        (Done(p, "cfgFile") /\ proc[p].sawYml /\ proc[p].quiet
            /\ events = <<>>)
            => proc[p].uri = FirstMatch(FindFiles(AntoraYmlGlob, disk),
                                        proc[p].arg)

----------------------------------------------------------------------------
(* Properties of the watcher handlers and of the builds (runs of Spec). *)

\* the events a watcher may deliver
WatcherEvents ==
    {[kind |-> k, path |-> f] : k \in {"create", "change", "delete"},
                                f \in PathSet}

\* the three caches
Caches ==
    [cfg |-> antoraConfigFilesCache, content |-> antoraContentFilesCache,
     agg |-> aggregateCache]

\* the caches after every installed handler has run on the event (arrays
\* the handlers allocate are told apart by what they hold only)
Handled(c, e) ==
    [cfg     |-> ConfigWatcherOnList(c.cfg, e, nextId),
     content |-> WatchersOnContent(c.content, e),
     agg     |-> AggregateWatchers(c.agg, e, nextId + 1)]

\* C19: in every state, for every event of every watcher: handling the
\* event twice in a row leaves the descriptor list, the content-file lists
\* and the aggregate as handling it once does.
C19_HandlersIdempotent ==
    \A e \in WatcherEvents :
        Handled(Handled(Caches, e), e) = Handled(Caches, e)

\* C20: at no time are two calls of getAntoraDocumentContext both between
\* finding the cache empty and committing the aggregate they build.
C20_OneBuildInFlight ==
    Cardinality({p \in Procs : Building(proc[p])}) <= 1


----------------------------------------------------------------------------
(* Failures of the services the code awaits.  vscode.workspace.findFiles  *)
(* may reject; an antora.yml may hold bytes that do not parse (ConfigKeysAt *)
(* gives such a file no key: yaml.load throws, the catch leaves config {}).*)

\* the glob service fails: the promise of findFiles(glob) rejects
ScanFails(p, i) ==
    /\ proc[p].pc \in {"cfgGlob", "contentGlob"}
    /\ i \in proc[p].pend
    /\ ~proc[p].snaps[i].done
    /\ proc' = [proc EXCEPT ![p].snaps[i] =
                  [done |-> TRUE, items |-> <<>>, failed |-> TRUE]]
    /\ hist' = [hist EXCEPT !.ev = NoEv]
    /\ UNCHANGED << fsVars, findFilesVars, aggregateVars, nextId, calls,
                    disposes >>
    /\ UNCHANGED memoVars

\* the awaited findFiles of a call has rejected
Failed(p, i) ==
    /\ i \in proc[p].pend
    /\ proc[p].snaps[i].done
    /\ proc[p].snaps[i].failed

\* await vscode.workspace.findFiles('**/antora.yml') throws inside
\* findAntoraConfigFiles, which has no handler, and inside
\* findAntoraConfigFile and getAntoraConfig, which await it bare: the call
\* rejects
Rejected(q) ==
    [q EXCEPT !.pc = "done", !.pend = {}, !.rejected = TRUE]

\* findAntoraConfigFiles, findAntoraConfigFile or getAntoraConfig resumes
\* from the failed glob; antoraConfigFilesCache is left undefined
RejectFind(p) ==
    /\ proc[p].op \in {"cfgFiles", "cfgFile", "cfg"}
    /\ proc[p].pc = "cfgGlob"
    /\ Failed(p, 1)
    /\ proc' = [proc EXCEPT ![p] = Rejected(proc[p])]
    /\ hist' = [hist EXCEPT !.ev = NoEv]
    /\ UNCHANGED << fsVars, findFilesVars, aggregateVars, nextId, calls,
                    disposes >>
    /\ UNCHANGED memoVars

\* the findAntoraContentFiles of a build that are still awaiting their glob
\* when the build is abandoned: each goes on to store its list
Orphans(q, i) ==
    LET idx == SelectSeq([j \in 1..Len(q.snaps) |-> j],
                         LAMBDA j : j \in q.pend \ {i} /\ ~q.snaps[j].failed)
    IN  [k \in 1..Len(idx) |->
            [glob  |-> GlobOf(q, idx[k]),
             done  |-> q.snaps[idx[k]].done,
             items |-> q.snaps[idx[k]].items]]

\* getAntoraDocumentContext resumes from a failed glob, of the descriptors
\* (getAntoraConfigs rejects) or of the content files of one component
\* (Promise.all rejects): the catch block logs and returns undefined
CtxCatch(p, i) ==
    /\ proc[p].op = "ctx"
    /\ proc[p].pc \in {"cfgGlob", "contentGlob"}
    /\ Failed(p, i)
    /\ tasks' = tasks \o (IF proc[p].pc = "contentGlob"
                          THEN Orphans(proc[p], i) ELSE <<>>)
    /\ proc' = [proc EXCEPT ![p].pc = "done", ![p].pend = {},
                            ![p].caught = TRUE, ![p].ok = FALSE]
    /\ hist' = [hist EXCEPT !.ev = NoEv]
    /\ UNCHANGED << fsVars, antoraConfigFilesCache, antoraContentFilesCache,
                    configWatcherCreated, contentWatcherCreated,
                    aggregateVars, nextId, calls, disposes >>
    /\ UNCHANGED memoVars

----------------------------------------------------------------------------
(* getAntoraConfig. *)

NoConfig == [defined |-> FALSE, uri |-> <<>>, keys |-> {}]

\* a getAntoraConfig that hands back nothing for a descriptor without keys
AbsentWhenEmpty(antoraConfigUri, d) ==
    IF antoraConfigUri = <<>> \/ ParsedKeys(antoraConfigUri, d) = {}
    THEN NoConfig
    ELSE [defined |-> TRUE, uri |-> antoraConfigUri,
          keys |-> ParsedKeys(antoraConfigUri, d)]

\* the lines after the await of getAntoraConfig: undefined when no
\* descriptor owns the document, else new AntoraConfig(uri, config) where
\* config is what yaml.load(readFileSync(...)) gave, or {} when that threw
AntoraConfigOf(antoraConfigUri, d) ==
    IF antoraConfigUri = <<>> THEN NoConfig
    ELSE [defined |-> TRUE, uri |-> antoraConfigUri,
          keys |-> ParsedKeys(antoraConfigUri, d)]

StartGetConfig(p, doc) ==
    /\ CanStart(p)
    /\ calls' = calls + 1
    /\ LET q == NewCall("cfg", doc)
       IN  IF antoraConfigFilesCache # NoArr
           THEN /\ proc' = [proc EXCEPT ![p] =
                      [q EXCEPT
                         !.pc = "done",
                         !.uris = antoraConfigFilesCache.items,
                         !.uri = FirstMatch(antoraConfigFilesCache.items, doc),
                         !.config = AntoraConfigOf(
                             FirstMatch(antoraConfigFilesCache.items, doc),
                             disk)]]
                /\ hist' = [hist EXCEPT !.ev = NoEv,
                                        !.lastCfg = antoraConfigFilesCache.id]
                /\ UNCHANGED configWatcherCreated
           ELSE /\ configWatcherCreated' = TRUE
                /\ proc' = [proc EXCEPT ![p] = Suspended(q, "cfgGlob")]
                /\ hist' = [hist EXCEPT
                              !.ev = NoEv,
                              !.made.cfg =
                                  EnsureWatcher(configWatcherCreated, @)]
    /\ UNCHANGED << fsVars, antoraConfigFilesCache, antoraContentFilesCache,
                    contentWatcherCreated, tasks, aggregateVars, nextId,
                    disposes >>
    /\ UNCHANGED memoVars

ResumeGetConfig(p) ==
    /\ Resumable(p, "cfg", "cfgGlob", 1)
    /\ antoraConfigFilesCache' = Arr(nextId, proc[p].snaps[1].items)
    /\ nextId' = nextId + 1
    /\ LET uri == FirstMatch(proc[p].snaps[1].items, proc[p].arg)
       IN  proc' = [proc EXCEPT
                      ![p].pc = "done", ![p].pend = {},
                      ![p].uris = proc[p].snaps[1].items,
                      ![p].uri = uri,
                      ![p].config = AntoraConfigOf(uri, disk)]
    /\ hist' = [hist EXCEPT !.ev = NoEv, !.lastCfg = nextId]
    /\ UNCHANGED << fsVars, antoraContentFilesCache, configWatcherCreated,
                    contentWatcherCreated, tasks, aggregateVars, calls,
                    disposes >>
    /\ UNCHANGED memoVars

----------------------------------------------------------------------------
(* The runs with failures: two components whose descriptors parse or do   *)
(* not, the calls of discovery, of getAntoraConfig and of the context, and *)
(* a glob service that may fail.                                           *)

InitFail ==
    /\ disk = {ConfigUri(RootA), ConfigUri(RootN), PageX(RootA), PageX(RootN)}
    /\ \E v \in [YmlPaths \cap TwoRoots -> {0, 3}] :
          bytes = [f \in PathSet |->
                      IF f \in YmlPaths \cap TwoRoots THEN v[f] ELSE 0]
    /\ events = <<>>
    /\ fsOps = 0
    /\ antoraConfigFilesCache = NoArr
    /\ antoraContentFilesCache = EmptyMap
    /\ configWatcherCreated = FALSE
    /\ contentWatcherCreated = FALSE
    /\ tasks = <<>>
    /\ aggregateCache = NoAggregate
    /\ aggregateWatchersCreated = FALSE
    /\ proc = [p \in Procs |-> IdleProc]
    /\ nextId = 1
    /\ calls = 0
    /\ disposes = 0
    /\ hist = InitHist
    /\ InitMemo

NextFail ==
    \/ \E p \in Procs : StartCfgFiles(p)
    \/ \E p \in Procs, doc \in ResolvedDocuments : StartCfgFile(p, doc)
    \/ \E p \in Procs, doc \in Documents \cup ResolvedDocuments :
          StartGetConfig(p, doc)
    \/ \E p \in Procs, doc \in Documents : StartCtx(p, doc)
    \/ \E p \in Procs, i \in 1..Len(AllPaths) : Scan(p, i)
    \/ \E p \in Procs, i \in 1..Len(AllPaths) : ScanFails(p, i)
    \/ \E p \in Procs : ResumeCfgFiles(p)
    \/ \E p \in Procs : ResumeCfgFile(p)
    \/ \E p \in Procs : ResumeGetConfig(p)
    \/ \E p \in Procs : RejectFind(p)
    \/ \E p \in Procs : CtxResumeConfigGlob(p)
    \/ \E p \in Procs : CtxParse(p)
    \/ \E p \in Procs, i \in 1..Len(AllPaths) : CtxResumeContentGlob(p, i)
    \/ \E p \in Procs, i \in 1..Len(AllPaths) : CtxCatch(p, i)
    \/ \E p \in Procs : CtxReturn(p)
    \/ \E i \in 1..Len(tasks) : TaskScan(i)
    \/ \E i \in 1..Len(tasks) : TaskResume(i)

SpecFail == InitFail /\ [][NextFail]_vars

\* C21: a discovery whose glob failed completes normally with the empty
\* list: no call of findAntoraConfigFiles, findAntoraConfigFile or
\* getAntoraConfig ends rejected.
C21_DiscoveryNeverRejects ==
    \A p \in Procs :
        proc[p].op \in {"cfgFiles", "cfgFile", "cfg"} => ~proc[p].rejected


\* a descriptor whose bytes cannot be read or do not parse
Unparsable(antoraConfigUri) ==
    antoraConfigUri \notin disk \/ bytes[antoraConfigUri] % 4 = 3

C23_FailureIsolated ==
    \A p \in Procs :
        (proc[p].op = "ctx" /\ proc[p].pc = "done" /\ ~proc[p].hit
            /\ Len(proc[p].roots) > 0)
            => /\ ~proc[p].caught
               /\ proc[p].cat # NoCatalog


\* C24: a contents access that has to read the disk and finds the file gone
\* throws to its caller: no value is handed back and nothing is stored in
\* the accessor, which stays unloaded.
C24_ReadFailureSurfaces ==
    \A p \in Procs :
        LET got == proc[p].got
        IN  (WithCatalog(p) /\ got.path # <<>> /\ got.read /\ got.missing) =>
                /\ got.threw
                /\ got.value = Null
                /\ ~proc[p].lazy[got.path].loaded

\* C24 happens: a file of a returned catalog was deleted, and the first
\* read of its contents threw.
C24_Witness ==
    \E p \in Procs :
        /\ WithCatalog(p)
        /\ proc[p].got.path # <<>>
        /\ proc[p].got.read
        /\ proc[p].got.missing
        /\ proc[p].got.threw
        /\ proc[p].got.path \notin disk


----------------------------------------------------------------------------
(* Symbolic links (runs of SpecBuild). *)

\* the entries of an aggregate that are of the component of a directory
EntriesOf(q, root) ==
    {i \in 1..Len(q.roots) : DescriptorOf(q.roots[i]) = DescriptorOf(root)}

\* C25: in the aggregate a call builds, no entry is of a descriptor whose
\* parent directory is a symbolic link, and every discovered descriptor
\* with both keys whose parent directory is a real directory has its
\* entry; when the component directory a is real, has a valid descriptor
\* and is also reached through the link node_modules/p, the aggregate holds
\* that component exactly once, under its real directory, and is
\* classified with the component's page in the catalog.
C25_SymlinkRejected ==
    \A p \in Procs :
        (Classified(p) /\ ~proc[p].hit) =>
            LET q == proc[p]
            IN  /\ \A i \in 1..Len(q.roots) : q.roots[i] \notin disk
                /\ \A u \in SeqToSet(q.uris) :
                      (ParentDir(u) \notin disk
                          /\ {"name", "version"} \subseteq ParsedKeys(u, disk))
                          => \E i \in 1..Len(q.roots) : q.roots[i] = ParentDir(u)
                /\ (RootN \in disk /\ RootA \notin disk
                        /\ ConfigUri(RootN) \in SeqToSet(q.uris)
                        /\ bytes[ConfigUri(RootN)] = bytes[ConfigUri(RootA)]
                        /\ ConfigKeysAt(bytes[ConfigUri(RootA)])
                               = {"name", "version"})
                      => /\ Cardinality(EntriesOf(q, RootA)) = 1
                         /\ \A i \in EntriesOf(q, RootA) : q.roots[i] = RootA
                         /\ q.cat # NoCatalog
                         /\ PageX(RootA) \in q.cat.files

\* C25 happens: the component directory is real and is also reached
\* through a link, both descriptors were discovered and hold the same valid
\* bytes, and the call returned a context built from one entry.
C25_Witness ==
    \E p \in Procs :
        /\ Classified(p)
        /\ ~proc[p].hit
        /\ proc[p].ok
        /\ RootN \in disk
        /\ RootA \notin disk
        /\ Len(proc[p].uris) = 2
        /\ bytes[ConfigUri(RootN)] = bytes[ConfigUri(RootA)]
        /\ ConfigKeysAt(bytes[ConfigUri(RootA)]) = {"name", "version"}
        /\ proc[p].roots = <<RootA>>


----------------------------------------------------------------------------
(* The recorded filesystem paths. *)

\* C26: every file record of the cached per-component lists has its path
\* recorded in fsPathByAbsPath, and every file of a catalog a call has
\* classified has a lazy contents accessor.
C26_EveryFileHasAccessor ==
    /\ aggregateCache # NoAggregate =>
          PathsOf(aggregateCache.filesByComponent)
              \subseteq aggregateCache.fsPathByAbsPath.keys
    /\ \A p \in Procs :
          WithCatalog(p) => DOMAIN proc[p].lazy = proc[p].cat.files


\* The builds over a component with a second component nested in its pages:
\* the calls of the context, the deletion and creation of files, and the
\* watchers.
InitNested ==
    /\ disk = {ConfigUri(RootA), ConfigUri(RootS), PageX(RootA), PageX(RootS)}
    /\ bytes = [f \in PathSet |-> 0]
    /\ events = <<>>
    /\ fsOps = 0
    /\ antoraConfigFilesCache = NoArr
    /\ antoraContentFilesCache = EmptyMap
    /\ configWatcherCreated = FALSE
    /\ contentWatcherCreated = FALSE
    /\ tasks = <<>>
    /\ aggregateCache = NoAggregate
    /\ aggregateWatchersCreated = FALSE
    /\ proc = [p \in Procs |-> IdleProc]
    /\ nextId = 1
    /\ calls = 0
    /\ disposes = 0
    /\ hist = InitHist
    /\ InitMemo

NextNested ==
    \/ \E path \in {PageX(RootA), PageX(RootS)} : FsCreate(path)
    \/ \E path \in {PageX(RootA), PageX(RootS)} : FsDelete(path)
    \/ Deliver
    \/ \E p \in Procs, doc \in Documents : StartCtx(p, doc)
    \/ \E p \in Procs, i \in 1..Len(AllPaths) : Scan(p, i)
    \/ \E p \in Procs : CtxResumeConfigGlob(p)
    \/ \E p \in Procs : CtxParse(p)
    \/ \E p \in Procs, i \in 1..Len(AllPaths) : CtxResumeContentGlob(p, i)
    \/ \E p \in Procs : CtxReturn(p)

SpecNested == InitNested /\ [][NextNested]_vars


----------------------------------------------------------------------------
(* The explicit resets and the watchers (runs of Spec). *)

\* C27: from an explicit reset until the next call is made, the caches the
\* reset cleared stay empty and its watchers stay disposed, the created
\* flags false: nothing that was suspended when the reset ran writes into
\* them.
C27_ResetHolds ==
    /\ hist.findResetAt = calls =>
          /\ antoraConfigFilesCache = NoArr
          /\ antoraContentFilesCache = EmptyMap
          /\ ~configWatcherCreated
          /\ ~contentWatcherCreated
    /\ hist.aggResetAt = calls =>
          /\ aggregateCache = NoAggregate
          /\ ~aggregateWatchersCreated

\* C28: no watcher exists before the first call, and between two resets
\* each module creates at most one watcher per glob it watches, whatever
\* the calls made; a created flag is set exactly when its watcher exists.
C28_WatchersOnce ==
    /\ calls = 0 =>
          /\ ~configWatcherCreated
          /\ ~contentWatcherCreated
          /\ ~aggregateWatchersCreated
          /\ hist.made = [cfg |-> 0, content |-> 0, agg |-> 0]
    /\ hist.made.cfg = (IF configWatcherCreated THEN 1 ELSE 0)
    /\ hist.made.content = (IF contentWatcherCreated THEN 1 ELSE 0)
    /\ hist.made.agg = (IF aggregateWatchersCreated THEN 1 ELSE 0)

\* C28 happens: two calls that both missed the cache are suspended on the
\* descriptor glob, and one antora.yml watcher was created.
C28_Witness ==
    \E p, r \in Procs :
        /\ p # r
        /\ proc[p].pc = "cfgGlob"
        /\ proc[r].pc = "cfgGlob"
        /\ hist.made.cfg = 1
        /\ configWatcherCreated


----------------------------------------------------------------------------
(* The order of the candidates (runs of SpecResolve). *)

\* the positions of the list whose descriptor has the shape for the document
ShapedAt(q) == {i \in 1..Len(q.uris) : HasShape(q.arg, q.uris[i])}

\* C29: findAntoraConfigFile returns the descriptor at the first position
\* of the discovered list that has the directory shape for the document,
\* and undefined exactly when no position has.
C29_FirstInListOrder ==
    \A p \in Procs :
        Done(p, "cfgFile") =>
            LET q == proc[p]
            IN  IF ShapedAt(q) = {} THEN q.uri = <<>>
                ELSE \E i \in ShapedAt(q) :
                        /\ \A j \in ShapedAt(q) : i <= j
                        /\ q.uri = q.uris[i]

\* C29 happens: the document is below a component nested in the pages of
\* another, both descriptors are in the list, the nested one after a
\* descriptor that does not match and before the outer one, and the nested
\* one was returned.
C29_Witness ==
    \E p \in Procs :
        /\ Done(p, "cfgFile")
        /\ proc[p].arg = PageX(RootNested)
        /\ proc[p].uris = <<ConfigUri(RootB), ConfigUri(RootNested),
                            ConfigUri(RootA)>>
        /\ ShapedAt(proc[p]) = {2, 3}
        /\ proc[p].uri = ConfigUri(RootNested)


\* the document of the test case: pages inside commands inside a directory
\* of the component that is named module
ConvertDoc ==
    RootA \o <<Sl, "module", Sl, "commands", Sl, "pages", Sl, "convert">>

AdmonitionDoc == RootM \o <<Sl, "blocks", Sl, "pages", Sl, "admonition">>

----------------------------------------------------------------------------
(* The earlier antoraDocument.ts, which memoises the descriptor of a       *)
(* document and the parsed config of a descriptor, and keeps the context.  *)
(* Its glob is findFiles itself: no list of descriptors is kept.           *)

\* '**/modules/**' of the content watcher
MODULES_WATCHER_GLOB == <<"**", Sl, "modules", Sl, "**">>

\* The handlers transform the context and the two Maps, held in a record
\* [context, file, config].

\* a change handler that keeps the parsed config of the descriptor
ChangeKeepsConfig(s, uri) == [s EXCEPT !.context = NoContext]

\* configWatcher.onDidChange
MemoConfigOnDidChange(s, uri) ==
    [s EXCEPT !.config = MapDelete(@, uri), !.context = NoContext]

\* configWatcher.onDidCreate
MemoConfigOnDidCreate(s) ==
    [s EXCEPT !.file = [d \in {} |-> <<>>], !.config = [u \in {} |-> {}],
              !.context = NoContext]

\* configWatcher.onDidDelete
MemoConfigOnDidDelete(s, uri) ==
    [s EXCEPT !.file = [d \in {} |-> <<>>], !.config = MapDelete(@, uri),
              !.context = NoContext]

\* the handlers of setupCacheInvalidationWatchers that an event reaches:
\* those of the config watcher, then those of the content watcher, where a
\* create or a delete drops the context and a change empties the contents
\* of the file in the context, which nothing has loaded here
MemoHandlers(s, e) ==
    LET c == IF ~GlobMatches(AntoraYmlGlob, e.path) THEN s
             ELSE IF e.kind = "create" THEN MemoConfigOnDidCreate(s)
             ELSE IF e.kind = "change" THEN MemoConfigOnDidChange(s, e.path)
             ELSE MemoConfigOnDidDelete(s, e.path)
    IN  IF GlobMatches(MODULES_WATCHER_GLOB, e.path) /\ e.kind # "change"
        THEN [c EXCEPT !.context = NoContext] ELSE c

\* the event loop hands the oldest event to the watchers, if they exist
MemoDeliver ==
    /\ events # <<>>
    /\ events' = Tail(events)
    /\ LET e == Head(events)
           was == [context |-> cachedAntoraContext,
                   file |-> antoraConfigFileCache,
                   config |-> antoraConfigCache]
           s == IF watchersInitialized THEN MemoHandlers(was, e) ELSE was
       IN  /\ cachedAntoraContext' = s.context
           /\ antoraConfigFileCache' = s.file
           /\ antoraConfigCache' = s.config
           /\ memoHist' =
                 [memoHist EXCEPT
                    !.ev = [kind |-> e.kind, path |-> e.path,
                            handled |-> watchersInitialized],
                    !.configWas = antoraConfigCache,
                    !.fileWas = antoraConfigFileCache,
                    !.changed =
                        IF /\ watchersInitialized
                           /\ e.kind = "change"
                           /\ GlobMatches(AntoraYmlGlob, e.path)
                        THEN @ \cup {e.path} ELSE @]
    /\ UNCHANGED << disk, bytes, fsOps, findFilesVars, aggregateVars,
                    watchersInitialized, proc, nextId, calls, disposes, hist >>

\* getAntoraConfig after its await: the config of the Map, or the one read
\* with readFileSync and put in the Map
\* put in the Map: what is returned, and the Map afterwards
MemoConfigOf(antoraConfigUri) ==
    IF antoraConfigUri = <<>>
    THEN [ret |-> NoConfig, map |-> antoraConfigCache]
    ELSE IF antoraConfigUri \in DOMAIN antoraConfigCache
    THEN [ret |-> [defined |-> TRUE, uri |-> antoraConfigUri,
                   keys |-> antoraConfigCache[antoraConfigUri]],
          map |-> antoraConfigCache]
    ELSE [ret |-> [defined |-> TRUE, uri |-> antoraConfigUri,
                   keys |-> ParsedKeys(antoraConfigUri, disk)],
          map |-> MapSet(antoraConfigCache, antoraConfigUri,
                         ParsedKeys(antoraConfigUri, disk))]

\* a call of the earlier variant takes the first slot that is free
MemoCanStart(p) ==
    /\ proc[p].pc \in {"idle", "done"}
    /\ \A r \in 1..(p - 1) : InFlight(proc[r])
    /\ memoHist.calls < MaxMemoCalls

MemoHistAfterCall(antoraConfigUri) ==
    [memoHist EXCEPT
       !.ev = NoMemoEv,
       !.changed = @ \ {antoraConfigUri},
       !.staleHit = @ \/ /\ antoraConfigUri \in memoHist.changed
                         /\ antoraConfigUri \in DOMAIN antoraConfigCache]

\* getAntoraConfig: findAntoraConfigFile answers from its Map, or globs
MemoStartGetConfig(p, doc) ==
    /\ MemoCanStart(p)
    /\ LET q == NewCall("memoCfg", doc)
       IN  IF doc \in DOMAIN antoraConfigFileCache
           THEN LET uri == antoraConfigFileCache[doc]
                IN  /\ proc' = [proc EXCEPT ![p] =
                           [q EXCEPT !.pc = "done", !.uri = uri,
                                     !.config = MemoConfigOf(uri).ret]]
                    /\ antoraConfigCache' = MemoConfigOf(uri).map
                    /\ memoHist' = [MemoHistAfterCall(uri) EXCEPT
                                      !.calls = @ + 1]
           ELSE /\ proc' = [proc EXCEPT ![p] = Suspended(q, "cfgGlob")]
                /\ memoHist' = [memoHist EXCEPT !.ev = NoMemoEv,
                                                !.calls = @ + 1]
                /\ UNCHANGED antoraConfigCache
    /\ UNCHANGED << fsVars, findFilesVars, aggregateVars, cachedAntoraContext,
                    watchersInitialized, antoraConfigFileCache, nextId,
                    calls, disposes, hist >>

\* findFiles('**/antora.yml') has resolved in findAntoraConfigFile
MemoResumeGetConfig(p) ==
    /\ Resumable(p, "memoCfg", "cfgGlob", 1)
    /\ LET uri == FirstMatch(proc[p].snaps[1].items, proc[p].arg)
       IN  /\ antoraConfigFileCache' =
                  MapSet(antoraConfigFileCache, proc[p].arg, uri)
           /\ antoraConfigCache' = MemoConfigOf(uri).map
           /\ proc' = [proc EXCEPT
                         ![p].pc = "done", ![p].pend = {},
                         ![p].uris = proc[p].snaps[1].items,
                         ![p].uri = uri,
                         ![p].config = MemoConfigOf(uri).ret]
           /\ memoHist' = MemoHistAfterCall(uri)
    /\ UNCHANGED << fsVars, findFilesVars, aggregateVars, cachedAntoraContext,
                    watchersInitialized, nextId, calls, disposes, hist >>

\* getAntoraDocumentContext: the context kept, or getAntoraConfigs
MemoStartCtx(p, doc) ==
    /\ MemoCanStart(p)
    /\ LET q == NewCall("memoCtx", doc)
       IN  proc' = [proc EXCEPT ![p] =
                      IF cachedAntoraContext.defined
                      THEN [q EXCEPT !.pc = "done",
                                     !.ok = doc \in cachedAntoraContext.files]
                      ELSE Suspended(q, "cfgGlob")]
    /\ memoHist' = [memoHist EXCEPT !.ev = NoMemoEv, !.calls = @ + 1]
    /\ UNCHANGED << fsVars, findFilesVars, aggregateVars, cachedAntoraContext,
                    watchersInitialized, antoraConfigFileCache,
                    antoraConfigCache, nextId, calls, disposes, hist >>

\* getAntoraConfigs has its descriptors: one findFiles for each valid one
MemoCtxParse(p) ==
    /\ Resumable(p, "memoCtx", "cfgGlob", 1)
    /\ LET q     == proc[p]
           roots == ValidRoots(q.snaps[1].items, disk)
           n     == Len(roots)
       IN  proc' = [proc EXCEPT ![p] =
                      [q EXCEPT !.uris = q.snaps[1].items, !.roots = roots,
                                !.pend = 1..n,
                                !.snaps = [i \in 1..n |-> NoSnap],
                                !.pc = "contentGlob"]]
    /\ memoHist' = [memoHist EXCEPT !.ev = NoMemoEv]
    /\ UNCHANGED << fsVars, findFilesVars, aggregateVars, cachedAntoraContext,
                    watchersInitialized, antoraConfigFileCache,
                    antoraConfigCache, nextId, calls, disposes, hist >>

\* every findFiles of the Promise.all has resolved: the context made of
\* what they listed is kept, and the watchers are set up
MemoCtxCommit(p) ==
    /\ proc[p].op = "memoCtx"
    /\ proc[p].pc = "contentGlob"
    /\ \A i \in proc[p].pend :
          proc[p].snaps[i].done /\ ~proc[p].snaps[i].failed
    /\ LET q     == proc[p]
           files == UNION {SeqToSet(q.snaps[i].items) : i \in 1..Len(q.snaps)}
       IN  /\ cachedAntoraContext' = [defined |-> TRUE, files |-> files]
           /\ proc' = [proc EXCEPT
                         ![p].pc = "done", ![p].pend = {},
                         ![p].ok = q.arg \in files]
    /\ watchersInitialized' = TRUE
    /\ memoHist' = [memoHist EXCEPT !.ev = NoMemoEv]
    /\ UNCHANGED << fsVars, findFilesVars, aggregateVars,
                    antoraConfigFileCache, antoraConfigCache, nextId, calls,
                    disposes, hist >>

InitMemoRun ==
    /\ disk = {ConfigUri(RootA), ConfigUri(RootN), PageX(RootA), PageX(RootN)}
    /\ bytes = [f \in PathSet |-> 0]
    /\ events = <<>>
    /\ fsOps = 0
    /\ antoraConfigFilesCache = NoArr
    /\ antoraContentFilesCache = EmptyMap
    /\ configWatcherCreated = FALSE
    /\ contentWatcherCreated = FALSE
    /\ tasks = <<>>
    /\ aggregateCache = NoAggregate
    /\ aggregateWatchersCreated = FALSE
    /\ proc = [p \in Procs |-> IdleProc]
    /\ nextId = 1
    /\ calls = 0
    /\ disposes = 0
    /\ hist = InitHist
    /\ InitMemo

NextMemo ==
    \/ \E path \in {ConfigUri(RootN), PageX(RootN)} : FsCreate(path)
    \/ \E path \in {ConfigUri(RootN), PageX(RootN)} : FsDelete(path)
    \/ \E path \in YmlPaths \cap TwoRoots : FsChange(path)
    \/ MemoDeliver
    \/ \E p \in Procs, doc \in Documents \cup ResolvedDocuments :
          MemoStartGetConfig(p, doc)
    \/ \E p \in Procs : MemoResumeGetConfig(p)
    \/ \E p \in Procs, doc \in Documents : MemoStartCtx(p, doc)
    \/ \E p \in Procs : MemoCtxParse(p)
    \/ \E p \in Procs : MemoCtxCommit(p)
    \/ \E p \in Procs, i \in 1..Len(AllPaths) : Scan(p, i)

SpecMemo == InitMemoRun /\ [][NextMemo]_vars

\* C32: a change event of an antora.yml that the watcher handles removes the
\* parsed config kept for that descriptor and nothing else: the parsed
\* configs of the other descriptors and the Map from documents to
\* descriptors are as they were, and until a getAntoraConfig has read the
\* descriptor again none is answered from the Map
C32_ChangeDropsOneConfig ==
    /\ /\ memoHist.ev.kind = "change"
       /\ memoHist.ev.handled
       /\ memoHist.ev.path \in YmlPaths
       => /\ antoraConfigCache =
                 MapDelete(memoHist.configWas, memoHist.ev.path)
          /\ antoraConfigFileCache = memoHist.fileWas
    /\ memoHist.changed \cap DOMAIN antoraConfigCache = {}
    /\ ~memoHist.staleHit

\* a handled change of one descriptor while the configs of both are kept,
\* and a later call that read the changed descriptor again
C32_Witness ==
    /\ memoHist.ev.kind = "change"
    /\ memoHist.ev.handled
    /\ memoHist.ev.path \in DOMAIN memoHist.configWas
    /\ DOMAIN antoraConfigCache # {}
    /\ DOMAIN antoraConfigFileCache # {}


----------------------------------------------------------------------------
(* The descriptor events and the aggregate (runs of Spec). *)

\* the component roots a build over the disk as it is would find
FreshRoots(d) == SeqToSet(ValidRoots(FindFiles(AntoraYmlGlob, d), d))

\* C33: an antora.yml event (create, change or delete) handled while an
\* aggregate is kept empties the slot, and what the next
\* getAntoraDocumentContext is served reflects the descriptors as they are
\* now: when everything has come to rest before that call starts, the slot
\* is empty or holds the components a build over the disk would find.
C33_DescriptorEventRebuilds ==
    /\ /\ hist.ev.kind # "none"
       /\ IsYml(hist.ev.path)
       /\ hist.ev.aggWas # NoAggregate
       => aggregateCache = NoAggregate
    /\ (hist.dropPending /\ Quiescent /\ aggregateCache # NoAggregate)
          => SeqToSet(aggregateCache.rootPaths) = FreshRoots(disk)


----------------------------------------------------------------------------
(* The surgical updates against a rebuild (runs of SpecNested). *)

\* the absolute paths of the records of one file array
PathsOfArr(arr) == {arr.items[j].abspath : j \in 1..Len(arr.items)}

\* what a build over the disk lists for a component root
FreshListing(root, d) ==
    SeqToSet(FindFiles(ContentGlobOfPrefix(PrefixOfRoot(root)), d))

\* C34: with an aggregate kept, every event delivered, no build in flight
\* and none overlapped by an event, the list kept for each component holds
\* (as a set of paths) the files a build over the disk would list for it,
\* and the keys of fsPathByAbsPath are the files of all of them, nested
\* component roots included.
C34_SurgicalEqualsRebuild ==
    (/\ aggregateCache # NoAggregate
     /\ events = <<>>
     /\ ~hist.raced
     /\ \A p \in Procs : ~Building(proc[p]))
    => /\ \A i \in 1..Len(aggregateCache.rootPaths) :
             PathsOfArr(aggregateCache.filesByComponent[i]) =
                 FreshListing(aggregateCache.rootPaths[i], disk)
       /\ aggregateCache.fsPathByAbsPath.keys =
             UNION { FreshListing(aggregateCache.rootPaths[i], disk) :
                     i \in 1..Len(aggregateCache.rootPaths) }


----------------------------------------------------------------------------
(* The content lists of findFiles.ts and their watcher (runs of Spec). *)

\* C35: whenever antoraContentFilesCache holds the list of some glob, the
\* content watcher that invalidates it is installed (stated for the runs
\* without a reset of findFiles.ts, so that the lists were all written
\* while the module was in use).
C35_EntryImpliesWatcher ==
    (hist.findResetAt = -1 /\ DOMAIN antoraContentFilesCache # {})
        => contentWatcherCreated


----------------------------------------------------------------------------
(* Duplicates in the cached lists (runs of Spec). *)

\* C36: with an aggregate kept, no list of a component holds two records
\* with the same absolute path.
C36_NoDuplicateRecords ==
    aggregateCache # NoAggregate =>
        \A i \in 1..Len(aggregateCache.filesByComponent) :
            LET items == aggregateCache.filesByComponent[i].items
            IN  \A j, k \in 1..Len(items) :
                    items[j].abspath = items[k].abspath => j = k

\* C37: the descriptor list kept by findFiles.ts holds each antora.yml at
\* most once.
C37_NoDuplicateDescriptors ==
    ~HasDuplicates(antoraConfigFilesCache.items)


----------------------------------------------------------------------------
(* The parallel arrays of the aggregate (runs of Spec). *)

\* C38: with an aggregate kept, descriptors, filesByComponent and rootPaths
\* have one length, the descriptor at an index is the one of the root at
\* that index, and every record of the list at an index has that root as
\* its base; the content handlers keep it so.
C38_ParallelArrays ==
    aggregateCache # NoAggregate =>
        /\ Len(aggregateCache.descriptors) = Len(aggregateCache.rootPaths)
        /\ Len(aggregateCache.filesByComponent) = Len(aggregateCache.rootPaths)
        /\ \A i \in 1..Len(aggregateCache.rootPaths) :
              /\ aggregateCache.descriptors[i] =
                     DescriptorOf(aggregateCache.rootPaths[i])
              /\ \A j \in 1..Len(aggregateCache.filesByComponent[i].items) :
                     aggregateCache.filesByComponent[i].items[j].base =
                         aggregateCache.rootPaths[i]

\* a content create was handled on an aggregate of two components, and the
\* record went to the second
C38_Witness ==
    /\ hist.ev.kind = "create"
    /\ IsContent(hist.ev.path)
    /\ hist.ev.aggWas # NoAggregate
    /\ aggregateCache # NoAggregate
    /\ Len(aggregateCache.rootPaths) = 2
    /\ Len(aggregateCache.filesByComponent[2].items) >
           Len(hist.ev.aggWas.filesByComponent[2].items)


----------------------------------------------------------------------------
(* The calls that end in the catch block (runs of Spec). *)

\* the call ended in its catch block: a glob rejected, or the classifier
\* threw on the aggregate
EndedInError(p) ==
    /\ Done(p, "ctx")
    /\ \/ proc[p].caught
       \/ proc[p].cat = NoCatalog /\ ClassifyThrows(
              [i \in 1..Len(proc[p].roots) |-> DescriptorOf(proc[p].roots[i])],
              proc[p].files)

\* C39: a call that found no aggregate and ended in its catch block has
\* left nothing in the slot: no file array it built is in the aggregate
\* kept.
C39_FailedCallLeavesCache ==
    \A p \in Procs :
        (EndedInError(p) /\ ~proc[p].hit /\ aggregateCache # NoAggregate) =>
            \A i \in 1..Len(proc[p].files) :
                \A k \in 1..Len(aggregateCache.filesByComponent) :
                    aggregateCache.filesByComponent[k].id # proc[p].files[i].id


----------------------------------------------------------------------------
(* Subscription before snapshot (runs of Spec). *)

\* the call waits for a glob whose result it will put in a cache
AwaitsGlob(p, pc) ==
    proc[p].op \in {"cfgFiles", "contentFiles", "ctx"} /\ proc[p].pc = pc

\* C40: while no reset has been made, a call that waits for a glob of
\* descriptors or of content has the watcher of that cache installed, and a
\* getAntoraDocumentContext in flight has the aggregate watchers; and in
\* every state a cached snapshot has its watcher: the descriptor list and
\* the aggregate always, the content lists as long as none can have come
\* from the antora.yml create handler.
C40_SubscriptionBeforeSnapshot ==
    /\ disposes = 0 =>
          \A p \in Procs :
              /\ AwaitsGlob(p, "cfgGlob") => configWatcherCreated
              /\ AwaitsGlob(p, "contentGlob") => contentWatcherCreated
              /\ (proc[p].op = "ctx" /\ InFlight(proc[p])) =>
                     aggregateWatchersCreated
    /\ antoraConfigFilesCache # NoArr => configWatcherCreated
    /\ aggregateCache # NoAggregate => aggregateWatchersCreated
    /\ (~hist.ymlSeen /\ DOMAIN antoraContentFilesCache # {})
          => contentWatcherCreated

====
